---- MODULE Spec2Model ----
(***************************************************************************)
(* dependency-hell-cli (dhell): the scan orchestrator (cmd/scan.go) and the *)
(* table it prints, the clean orchestrator (cmd/clean.go) with its         *)
(* confirmation gate and report, the per-provider Clean loops, and the     *)
(* providers' measurement operations.                                      *)
(*                                                                         *)
(* Conventions.  A Go pointer or error is a sequence of length 0 (nil) or  *)
(* 1.  A path is the sequence of its components, "~" being the home        *)
(* shorthand, so the empty path "" is << >>.  A command is the sequence of *)
(* its words, so the empty command "" is << >>.  A line typed on stdin is  *)
(* the sequence of its characters.  A text looked at with strings.Contains, *)
(* Fields or HasPrefix (a resolved path, a version output) is a sequence   *)
(* of tokens whose concatenation is the string.  A directory tree walked   *)
(* by CalculateDirSize is a function from relative path to its entry.      *)
(***************************************************************************)
EXTENDS Integers, Sequences, FiniteSets, TLC

VARIABLES
    \* ---- the machine the program runs on
    fs,             \* existing directories: absolute path -> total byte size
    execOnPath,     \* provider -> "absent" (not on PATH), "broken" (on PATH, its
                    \* version command fails) or "ok"
    goEnv,          \* what `go env NAME` (or the OS environment) answers
    \* ---- scan (cmd/scan.go)
    providers,      \* scanProviders' argument
    results,        \* the results slice of scanProviders
    wg,             \* the sync.WaitGroup counter
    scanPc,         \* scanProviders' position: "loop", "wait", "returned"
    scanIdx,        \* the loop variable i of scanProviders (1-based)
    task,           \* the goroutines, in launch order: [pc, index, p, result]
    writeLog,       \* history: [task, slot] for every store into results
    returned        \* what scanProviders returned: << >> before the return

scanVars == <<providers, results, wg, scanPc, scanIdx, task, writeLog, returned>>

VARIABLES
    \* ---- provider.Clean(items) (providers/*.go, cleaner.CleanItems)
    cleaner,        \* whose Clean is running: a provider name or "CleanItems"
    items,          \* the items argument
    ci,             \* 1-based position of the range loop over items
    result,         \* the *core.CleanResult being accumulated
    cleanLog,       \* history: one entry per item processed: the item (rec), what
                    \* was done to it, whether that succeeded, whether item.Path
                    \* existed before
    callNo,         \* history: how many Clean calls were started
    callResults,    \* history: the CleanResult each finished call returned
    cpc             \* control position of the clean side

cleanVars == <<cleaner, items, ci, result, cleanLog, callNo, callResults, cpc>>

VARIABLES
    \* ---- dhell clean <language> (cmd/clean.go)
    language,       \* args[0], as typed
    dryRun,         \* --dry-run
    force,          \* --force
    selected,       \* selectedProviders
    provIdx,        \* 1-based position of the loop over selectedProviders
    cur,            \* the cleanProvider call in progress
    runLog          \* history: one record per finished cleanProvider call

orchVars == <<language, dryRun, force, selected, provIdx, cur, runLog>>

VARIABLES
    \* ---- the providers' measurement operations called one by one
    probeLog        \* history: one record per call: its arguments and what it
                    \* returned

probeVars == <<probeLog>>

vars == <<fs, execOnPath, goEnv, scanVars, cleanVars, orchVars, probeVars>>

\* ------------------------------------------------------------------ bounds

\* Longest provider sequence handed to scanProviders.
MaxProviders == 3

\* Longest item list handed directly to a Clean.
MaxItems == 2

\* How many times in a row Clean is called on the same items.
MaxCalls == 2

\* How many cache directories exist when dhell clean starts.
MaxDirs == 2

\* How many measurement operations are called in a row.
MaxProbes == 2

\* How many directory trees are measured in a row.
MaxWalks == 2

\* How many provider operations are called in a row on one machine.
MaxMeasures == 2

\* How many paths are classified in a row.
MaxClassify == 2

\* ------------------------------------------------------------- generic helpers

Range(s) == {s[i] : i \in DOMAIN s}

RECURSIVE SumSizes(_)
SumSizes(s) == IF s = << >> THEN 0 ELSE Head(s).Size + SumSizes(Tail(s))

RECURSIVE SubSeqs(_)
\* Every subsequence of s, order kept.
SubSeqs(s) ==
    IF s = << >> THEN {<< >>}
    ELSE LET rest == SubSeqs(Tail(s))
         IN  rest \cup {<<Head(s)>> \o r : r \in rest}

\* a is a prefix of b.
IsPrefix(a, b) == Len(a) <= Len(b) /\ SubSeq(b, 1, Len(a)) = a

\* ------------------------------------------------------------------ providers

\* The registration order of runScan / runClean.
allProviders == <<"Golang", "Node.js", "Java", "Python", "PHP", "Rust">>

Providers == Range(allProviders)

\* The executable each DetectInstalled looks for.
Executable(p) ==
    CASE p = "Golang"  -> "go"
      [] p = "Node.js" -> "node"
      [] p = "Java"    -> "java"
      [] p = "Python"  -> "python3"
      [] p = "PHP"     -> "php"
      [] p = "Rust"    -> "rustc"

\* ------------------------------------------------------------------ scanner

Home == <<"/", "Users", "dev">>

\* ExpandHome: "~/x" becomes home/x, anything else is returned unchanged.
ExpandHome(path) ==
    IF Len(path) >= 2 /\ Head(path) = "~" THEN Home \o Tail(path) ELSE path

PathExists(path) == ExpandHome(path) \in DOMAIN fs

\* CalculateDirSize: 0 for a missing path, else the bytes below it.
CalculateDirSize(path) ==
    IF ~PathExists(ExpandHome(path)) THEN 0 ELSE fs[ExpandHome(path)]

\* Variant of CalculateDirSizeError: no early return for a missing path, and
\* the walk's error for its root is handed back.
CalculateDirSizeError_NoExistenceTest(path) ==
    IF ~PathExists(ExpandHome(path)) THEN <<"no such file or directory">> ELSE << >>

\* The error CalculateDirSize returns with the size: nil for a missing path
\* (the early return), and nil after the walk, whose callback returns nil for
\* every entry.
CalculateDirSizeError(path) == << >>

\* ------------------------------------------------------- provider measurement

\* getGoEnv: the value `go env NAME` prints, "" when unset.
getGoEnv(name) == goEnv[name]

\* `go env` answers: the go tool reports all four, or (go missing) only a GOPATH
\* exported in the shell is seen, or nothing is.
GoEnvNames == {"GOROOT", "GOPATH", "GOCACHE", "GOMODCACHE"}

GoEnvFull ==
    [n \in GoEnvNames |->
        CASE n = "GOROOT"     -> <<"/", "usr", "local", "go">>
          [] n = "GOPATH"     -> <<"/", "go">>
          [] n = "GOCACHE"    -> <<"/", "go-build">>
          [] n = "GOMODCACHE" -> <<"/", "go", "pkg", "mod">>]

GoEnvGopathOnly == [n \in GoEnvNames |-> IF n = "GOPATH" THEN <<"/", "go">> ELSE << >>]

GoEnvNone == [n \in GoEnvNames |-> << >>]

\* Where each binary is installed (a Homebrew layout for PHP, whose
\* GetGlobalCacheUsage looks at it).
BinaryPath(p) ==
    IF p = "PHP"
    THEN <<"/", "opt", "homebrew", "Cellar", "php", "8.3.0", "bin", "php">>
    ELSE <<"/", "usr", "local", "bin", Executable(p)>>

\* GOMODCACHE with its GOPATH/pkg/mod fallback.
GoModCache ==
    IF getGoEnv("GOMODCACHE") # << >> THEN getGoEnv("GOMODCACHE")
    ELSE IF getGoEnv("GOPATH") # << >> THEN getGoEnv("GOPATH") \o <<"pkg", "mod">>
    ELSE << >>

\* The Cellar directory of a Homebrew PHP: the real path cut before "/bin".
PhpCellarDir ==
    LET rp == BinaryPath("PHP")
        bin == {i \in DOMAIN rp : rp[i] = "bin"}
    IN  IF execOnPath["PHP"] # "absent" /\ Len(rp) >= 5 /\ SubSeq(rp, 2, 5) = <<"opt", "homebrew", "Cellar", "php">>
           /\ bin # {}
        THEN SubSeq(rp, 1, (CHOOSE i \in bin : \A j \in bin : i <= j) - 1)
        ELSE << >>

\* The locations each GetGlobalCacheUsage probes, in the order it probes them.
CacheLocations(p) ==
    CASE p = "Golang"  -> <<[Path |-> getGoEnv("GOROOT"), Description |-> "SDK"],
                            [Path |-> getGoEnv("GOCACHE"), Description |-> "Build Cache"],
                            [Path |-> GoModCache, Description |-> "Module Cache"]>>
      [] p = "Node.js" -> <<[Path |-> <<"~", ".nvm", "versions">>, Description |-> "NVM Versions"],
                            [Path |-> <<"~", ".npm", "_cacache">>, Description |-> "NPM Cache"],
                            [Path |-> <<"~", "Library", "Caches", "Yarn">>, Description |-> "Yarn Cache"],
                            [Path |-> <<"~", ".yarn">>, Description |-> "Yarn v2+ Cache"],
                            [Path |-> <<"~", ".local", "share", "pnpm", "store">>, Description |-> "PNPM Store"]>>
      [] p = "Java"    -> <<[Path |-> <<"~", ".sdkman", "candidates", "java">>, Description |-> "SDKMAN Java SDKs"],
                            [Path |-> <<"~", ".m2", "repository">>, Description |-> "Maven Repository"],
                            [Path |-> <<"~", ".gradle", "caches">>, Description |-> "Gradle Cache"]>>
      [] p = "Python"  -> <<[Path |-> <<"~", ".pyenv", "versions">>, Description |-> "Pyenv Versions"],
                            [Path |-> <<"~", "Library", "Caches", "pip">>, Description |-> "Pip Cache"],
                            [Path |-> <<"~", ".virtualenvs">>, Description |-> "Virtualenvs"]>>
      [] p = "PHP"     -> <<[Path |-> PhpCellarDir, Description |-> "PHP Installation"],
                            [Path |-> <<"~", ".composer", "cache">>, Description |-> "Composer Cache"],
                            [Path |-> <<"~", ".composer", "vendor">>, Description |-> "Composer Global Packages"]>>
      [] p = "Rust"    -> <<[Path |-> <<"~", ".rustup", "toolchains">>, Description |-> "Rustup Toolchains"],
                            [Path |-> <<"~", ".cargo", "registry">>, Description |-> "Cargo Registry"],
                            [Path |-> <<"~", ".cargo", "git">>, Description |-> "Cargo Git Checkouts"]>>

RECURSIVE MeasureLocations(_)
\* One DiskUsageItem per location that is named and exists.
MeasureLocations(locs) ==
    IF locs = << >> THEN << >>
    ELSE LET l == Head(locs)
         IN  (IF l.Path # << >> /\ PathExists(l.Path)
              THEN <<[Path |-> l.Path, Description |-> l.Description,
                      Size |-> CalculateDirSize(l.Path)]>>
              ELSE << >>) \o MeasureLocations(Tail(locs))

\* Variant of GetGlobalCacheUsage: the total loop assigns instead of adding,
\* so the total is the size of the last item.
GetGlobalCacheUsage_TotalOfLastItem(p) ==
    LET found == MeasureLocations(CacheLocations(p))
    IN  [Items |-> found,
         Total |-> IF found = << >> THEN 0 ELSE found[Len(found)].Size]

\* GetGlobalCacheUsage: the items found and their total; never an error.
GetGlobalCacheUsage(p) ==
    LET found == MeasureLocations(CacheLocations(p))
    IN  [Items |-> found, Total |-> SumSizes(found)]

\* --------------------------------------------------------------------- strings

Uppers == <<"A", "B", "C", "D", "E", "F", "G", "H", "I", "J", "K", "L", "M",
            "N", "O", "P", "Q", "R", "S", "T", "U", "V", "W", "X", "Y", "Z">>
Lowers == <<"a", "b", "c", "d", "e", "f", "g", "h", "i", "j", "k", "l", "m",
            "n", "o", "p", "q", "r", "s", "t", "u", "v", "w", "x", "y", "z">>

ToLowerChar(c) ==
    IF \E i \in DOMAIN Uppers : Uppers[i] = c
    THEN Lowers[CHOOSE i \in DOMAIN Uppers : Uppers[i] = c]
    ELSE c

\* strings.ToLower
ToLower(str) == [i \in DOMAIN str |-> ToLowerChar(str[i])]

IsSpace(c) == c \in {" ", "\n", "\t", "\r"}

RECURSIVE TrimLeft(_)
TrimLeft(str) ==
    IF str # << >> /\ IsSpace(Head(str)) THEN TrimLeft(Tail(str)) ELSE str

RECURSIVE TrimRight(_)
TrimRight(str) ==
    IF str # << >> /\ IsSpace(str[Len(str)])
    THEN TrimRight(SubSeq(str, 1, Len(str) - 1)) ELSE str

\* strings.TrimSpace
TrimSpace(str) == TrimRight(TrimLeft(str))

\* strings.Contains
Contains(str, sub) ==
    \E i \in 0..(Len(str) - Len(sub)) : SubSeq(str, i + 1, i + Len(sub)) = sub

\* bufio.Reader.ReadString('\n') on what stdin still holds: the text through
\* the first newline, or everything with an error (io.EOF) when there is none.
ReadString(stdin) ==
    LET nl == {i \in DOMAIN stdin : stdin[i] = "\n"}
    IN  IF nl = {} THEN [line |-> stdin, err |-> TRUE]
        ELSE [line |-> SubSeq(stdin, 1, CHOOSE i \in nl : \A j \in nl : i <= j),
              err |-> FALSE]

\* ------------------------------------------------------- source classification

\* A text is a sequence of tokens whose concatenation is the string; a path
\* text has one token per separator and at least one per component, so that
\* strings.Contains is Contains on the tokens.
RECURSIVE SlashJoin(_)
SlashJoin(comps) ==
    IF Len(comps) <= 1 THEN comps
    ELSE <<Head(comps), "/">> \o SlashJoin(Tail(comps))

\* The string of a path given by its components ("/" first when absolute).
PathString(path) ==
    IF path # << >> /\ Head(path) = "/" THEN <<"/">> \o SlashJoin(Tail(path))
    ELSE SlashJoin(path)

\* core.InstallSource
SourceVersionManager == "Version Manager"
SourceHomebrew == "Homebrew"
SourceSystem == "System"
SourceManual == "Manual"
SourceUnknown == "Unknown"

\* The path fragments the providers look for.
OptHomebrew == PathString(<<"/", "opt", "homebrew">>)
UsrLocalCellar == PathString(<<"/", "usr", "local", "Cellar">>)
InHomebrew(path) == Contains(path, OptHomebrew) \/ Contains(path, UsrLocalCellar)

\* Variant of determineSource: the Homebrew test comes first.
determineSource_HomebrewFirst(p, path, javaHome) ==
    IF InHomebrew(path) THEN SourceHomebrew
    ELSE IF \E m \in {<<".goenv">>, <<".nvm">>, <<".volta">>, <<".pyenv">>,
                      <<".sdkman">>, <<".phpenv">>, <<".cargo", "/", "bin">>} :
                Contains(path, m)
    THEN SourceVersionManager
    ELSE SourceUnknown

\* determineSource of each provider: the tests in the order the code makes
\* them. javaHome is os.Getenv("JAVA_HOME"), which only Java reads.
determineSource(p, path, javaHome) ==
    CASE p = "Golang" ->
            IF Contains(path, <<".goenv">>) THEN SourceVersionManager
            ELSE IF InHomebrew(path) THEN SourceHomebrew
            ELSE IF Contains(path, PathString(<<"/", "usr", "local", "go">>)) THEN SourceManual
            ELSE SourceUnknown
      [] p = "Node.js" ->
            IF Contains(path, <<".nvm">>) THEN SourceVersionManager
            ELSE IF Contains(path, <<".volta">>) THEN SourceVersionManager
            ELSE IF InHomebrew(path) THEN SourceHomebrew
            ELSE SourceUnknown
      [] p = "Python" ->
            IF Contains(path, <<".pyenv">>) THEN SourceVersionManager
            ELSE IF Contains(path, <<"anaconda">>) \/ Contains(path, <<"miniconda">>)
            THEN SourceVersionManager
            ELSE IF InHomebrew(path) THEN SourceHomebrew
            ELSE IF Contains(path, PathString(<<"/", "usr", "bin", "python">>)) THEN SourceSystem
            ELSE SourceUnknown
      [] p = "Java" ->
            IF Contains(path, <<".sdkman">>) \/ Contains(javaHome, <<".sdkman">>)
            THEN SourceVersionManager
            ELSE IF InHomebrew(path) THEN SourceHomebrew
            ELSE IF Contains(path, PathString(<<"/", "Library", "Java">>)) THEN SourceManual
            ELSE SourceUnknown
      [] p = "PHP" ->
            IF Contains(path, <<".phpenv">>) THEN SourceVersionManager
            ELSE IF InHomebrew(path) THEN SourceHomebrew
            ELSE IF Contains(path, PathString(<<"/", "usr", "bin", "php">>)) THEN SourceSystem
            ELSE SourceUnknown
      [] p = "Rust" ->
            IF Contains(path, <<".cargo", "/", "bin">>) THEN SourceVersionManager
            ELSE IF InHomebrew(path) THEN SourceHomebrew
            ELSE SourceUnknown

\* ------------------------------------------------------------ DetectInstalled

\* The index of the first token of text equal to tok, 0 when there is none.
IndexOf(text, tok) ==
    LET at == {i \in DOMAIN text : text[i] = tok}
    IN  IF at = {} THEN 0 ELSE CHOOSE i \in at : \A j \in at : i <= j

RECURSIVE Words(_)
\* strings.Fields on a text: the maximal runs of tokens that are not spaces.
Words(text) ==
    LET s == TrimLeft(text)
        sp == {i \in DOMAIN s : IsSpace(s[i])}
        n == IF sp = {} THEN Len(s) + 1 ELSE CHOOSE i \in sp : \A j \in sp : i <= j
    IN  IF s = << >> THEN << >>
        ELSE <<SubSeq(s, 1, n - 1)>> \o Words(SubSeq(s, n, Len(s)))

\* strings.Split(output, "\n")[0]
FirstLine(text) ==
    IF IndexOf(text, "\n") = 0 THEN text ELSE SubSeq(text, 1, IndexOf(text, "\n") - 1)

\* strings.HasPrefix and strings.TrimPrefix
HasPrefix(text, prefix) == IsPrefix(prefix, text)
TrimPrefix(text, prefix) ==
    IF HasPrefix(text, prefix) THEN SubSeq(text, Len(prefix) + 1, Len(text)) ELSE text

\* The version each DetectInstalled puts into the Installation, from what
\* GetExecutableVersion returned: Go takes the third field without a leading
\* "go", Node the output as it is, Python what follows "Python ", Java what
\* stands between the first two quotes of the first line, PHP the second
\* field of a first line that starts with "PHP ", Rust the second field
\* after "rustc"; all but Node fall back to "unknown".
ParseVersion(p, version) ==
    LET unknown == <<"unknown">>
        parts == Words(version)
        firstLine == FirstLine(version)
    IN  CASE p = "Golang" ->
                IF Len(parts) >= 3 THEN TrimPrefix(parts[3], <<"go">>) ELSE unknown
          [] p = "Node.js" -> TrimSpace(version)
          [] p = "Python" ->
                IF HasPrefix(version, <<"Python", " ">>)
                THEN TrimPrefix(version, <<"Python", " ">>) ELSE unknown
          [] p = "Java" ->
                LET start == IndexOf(firstLine, "\"")
                    rest == SubSeq(firstLine, start + 1, Len(firstLine))
                    end == IndexOf(rest, "\"")
                IN  IF start # 0 /\ end # 0 THEN SubSeq(rest, 1, end - 1) ELSE unknown
          [] p = "PHP" ->
                IF HasPrefix(firstLine, <<"PHP", " ">>) /\ Len(Words(firstLine)) >= 2
                THEN Words(firstLine)[2] ELSE unknown
          [] p = "Rust" ->
                IF Len(parts) >= 2 /\ parts[1] = <<"rustc">> THEN parts[2] ELSE unknown

\* scanner.GetExecutableVersion when the command ran: its output, trimmed.
GetExecutableVersion(output) == TrimSpace(output)

\* What each version command prints on a healthy installation.
UsualOutput(p) ==
    CASE p = "Golang"  -> <<"go", " ", "version", " ", "go", "1.21.3", " ", "darwin/arm64", "\n">>
      [] p = "Node.js" -> <<"v", "20.10.0", "\n">>
      [] p = "Python"  -> <<"Python", " ", "3.11.0", "\n">>
      [] p = "Java"    -> <<"openjdk", " ", "version", " ", "\"", "17.0.9", "\"", " ",
                            "2023-10-17", "\n", "OpenJDK", " ", "Runtime", "\n">>
      [] p = "PHP"     -> <<"PHP", " ", "8.2.0", " ", "(cli)", "\n", "Copyright", "\n">>
      [] p = "Rust"    -> <<"rustc", " ", "1.74.0", " ", "(79e9716c9)", "\n">>

\* DetectInstalled on a machine where the executable is absent, is found but
\* fails its version command ("broken"), or is found, resolves to realPath
\* and prints output: the two error returns, else one Installation.
DetectInstalledOn(p, exe, realPath, javaHome, output) ==
    IF exe = "absent"
    THEN [installations |-> << >>,
          err |-> <<Executable(p) \o " not found in PATH">>]
    ELSE IF exe = "broken"
    THEN [installations |-> << >>,
          err |-> <<"failed to get " \o Executable(p) \o " version">>]
    ELSE [installations |->
              <<[Version |-> ParseVersion(p, GetExecutableVersion(output)),
                 Source |-> determineSource(p, realPath, javaHome),
                 BinaryPath |-> BinaryPath(p)]>>,
          err |-> << >>]

\* DetectInstalled on the machine of the state: no symlink in the way, no
\* JAVA_HOME, the usual output.
DetectInstalled(p) ==
    DetectInstalledOn(p, execOnPath[p], PathString(BinaryPath(p)), << >>, UsualOutput(p))

\* ------------------------------------------------------------ cleanable items

\* The zero CleanResult every Clean starts from.
ZeroCleanResult == [ItemsCleaned |-> 0, SpaceReclaimed |-> 0, Errors |-> << >>]

\* A core.CleanableItem measured now: Size is CalculateDirSize of where it lives.
Item(where, path, description, command, safe) ==
    [Path |-> path, Description |-> description, Size |-> CalculateDirSize(where),
     Command |-> command, Safe |-> safe]

RECURSIVE ListExisting(_)
\* if PathExists(where) { append item }: candidates are [where, path, ...] records.
ListExisting(cands) ==
    IF cands = << >> THEN << >>
    ELSE LET c == Head(cands)
         IN  (IF c.where # << >> /\ PathExists(c.where)
              THEN <<Item(c.where, c.path, c.description, c.command, c.safe)>>
              ELSE << >>) \o ListExisting(Tail(cands))

Cand(where, path, description, command, safe) ==
    [where |-> where, path |-> path, description |-> description,
     command |-> command, safe |-> safe]

NpmCache == <<"~", ".npm", "_cacache">>
YarnCache == <<"~", "Library", "Caches", "Yarn">>
PnpmStore == <<"~", ".local", "share", "pnpm", "store">>
GradleCache == <<"~", ".gradle", "caches">>
MavenRepo == <<"~", ".m2", "repository">>
PipCache == <<"~", "Library", "Caches", "pip">>
ComposerCache == <<"~", ".composer", "cache">>
CargoRegistry == <<"~", ".cargo", "registry">>
CargoGit == <<"~", ".cargo", "git">>

\* GetCleanableItems of each provider; never an error.
GetCleanableItems(p) ==
    CASE p = "Golang"  -> ListExisting(<<
            Cand(GoModCache, << >>, "Go Module Cache", <<"go", "clean", "-modcache">>, TRUE),
            Cand(getGoEnv("GOCACHE"), << >>, "Go Build Cache", <<"go", "clean", "-cache">>, TRUE)>>)
      [] p = "Node.js" -> ListExisting(<<
            Cand(NpmCache, << >>, "NPM Cache", <<"npm", "cache", "clean", "--force">>, TRUE),
            Cand(YarnCache, << >>, "Yarn Cache", <<"yarn", "cache", "clean">>, TRUE),
            Cand(PnpmStore, << >>, "PNPM Store", <<"pnpm", "store", "prune">>, TRUE)>>)
      [] p = "Java"    -> ListExisting(<<
            Cand(GradleCache, GradleCache, "Gradle Cache", << >>, TRUE),
            Cand(MavenRepo, MavenRepo, "Maven Repository", << >>, FALSE)>>)
      [] p = "Python"  -> ListExisting(<<
            Cand(PipCache, << >>, "Pip Cache", <<"pip", "cache", "purge">>, TRUE)>>)
      [] p = "PHP"     -> ListExisting(<<
            Cand(ComposerCache, << >>, "Composer Cache", <<"composer", "clear-cache">>, TRUE)>>)
      [] p = "Rust"    -> ListExisting(<<
            Cand(CargoRegistry, CargoRegistry, "Cargo Registry", << >>, TRUE),
            Cand(CargoGit, CargoGit, "Cargo Git Checkouts", << >>, TRUE)>>)

\* ------------------------------------------------------------------ GetEnvVars

\* The variables each GetEnvVars reports.
EnvVarNames(p) ==
    CASE p = "Golang"  -> {"GOROOT", "GOPATH", "GOCACHE", "GOMODCACHE"}
      [] p = "Node.js" -> {"NODE_PATH", "NPM_CONFIG_PREFIX", "NVM_DIR"}
      [] p = "Python"  -> {"PYTHONPATH", "VIRTUAL_ENV", "PYENV_ROOT"}
      [] p = "Java"    -> {"JAVA_HOME", "M2_HOME", "GRADLE_HOME"}
      [] p = "PHP"     -> {"COMPOSER_HOME", "PHP_INI_SCAN_DIR"}
      [] p = "Rust"    -> {"CARGO_HOME", "RUSTUP_HOME"}

\* scanner.GetEnvVar / os.Getenv in the environment the process was given:
\* NVM_DIR, JAVA_HOME and CARGO_HOME are exported, the others are not.
GetEnvVar(name) ==
    CASE name = "NVM_DIR"    -> Home \o <<".nvm">>
      [] name = "JAVA_HOME"  -> <<"/", "Library", "Java", "Home">>
      [] name = "CARGO_HOME" -> Home \o <<".cargo">>
      [] OTHER               -> << >>

\* GetEnvVars: the variables with a non-empty value; Go asks `go env`.
GetEnvVars(p) ==
    LET value(n) == IF p = "Golang" THEN getGoEnv(n) ELSE GetEnvVar(n)
    IN  [n \in {n \in EnvVarNames(p) : value(n) # << >>} |-> value(n)]

\* ---------------------------------------------------------------------- clean

\* strings.Fields of a command: its words.
Fields(command) == SelectSeq(command, LAMBDA w : w # "")

\* What one iteration of a Clean loop does to an item before counting it:
\* "command" runs item.Command as a subprocess, "remove" calls os.RemoveAll on
\* arg, "none" does nothing.  (CleanItems removes through CleanDirectory, which
\* returns nil for a missing path, exactly where os.RemoveAll changes nothing.)
\* A command of white space only has no fields: NodeProvider.Clean indexes
\* parts[0] of the empty slice ("panic"), RunCleanCommand returns its
\* "empty command" error without running anything ("reject").
CleanAction(c, item) ==
    CASE c = "Golang" ->
            IF item.Command # << >> THEN [kind |-> "command", arg |-> item.Command]
            ELSE [kind |-> "none", arg |-> << >>]
      [] c = "Node.js" ->
            IF item.Command = << >> THEN [kind |-> "none", arg |-> << >>]
            ELSE IF Len(Fields(item.Command)) = 0 THEN [kind |-> "panic", arg |-> << >>]
            ELSE [kind |-> "command", arg |-> item.Command]
      [] c = "Python" ->
            IF item.Command # << >> /\ Len(Fields(item.Command)) > 0
            THEN [kind |-> "remove", arg |-> ExpandHome(item.Path)]
            ELSE [kind |-> "none", arg |-> << >>]
      [] c = "PHP" ->
            IF item.Command # << >> /\ item.Path # << >>
            THEN [kind |-> "remove", arg |-> ExpandHome(item.Path)]
            ELSE [kind |-> "none", arg |-> << >>]
      [] c = "Java" ->
            IF item.Path # << >> THEN [kind |-> "remove", arg |-> ExpandHome(item.Path)]
            ELSE [kind |-> "none", arg |-> << >>]
      [] c = "Rust" ->
            IF item.Path # << >> THEN [kind |-> "remove", arg |-> ExpandHome(item.Path)]
            ELSE IF item.Command # << >> THEN [kind |-> "command", arg |-> item.Command]
            ELSE [kind |-> "none", arg |-> << >>]
      [] c = "CleanItems(dryRun)" -> [kind |-> "none", arg |-> << >>]
      [] c = "CleanItems" ->
            IF item.Command # << >>
            THEN IF Len(Fields(item.Command)) = 0 THEN [kind |-> "reject", arg |-> << >>]
                 ELSE [kind |-> "command", arg |-> item.Command]
            ELSE IF item.Path # << >>
            THEN [kind |-> "remove", arg |-> ExpandHome(item.Path)]
            ELSE [kind |-> "none", arg |-> << >>]

\* os.RemoveAll(path) when it succeeds: path and all below it are gone; the
\* empty path and a missing path leave everything as it is.
RemoveAll(f, path) ==
    IF path = << >> THEN f
    ELSE [q \in {q \in DOMAIN f : ~IsPrefix(path, q)} |-> f[q]]

\* The directory each ecosystem's cleanup command empties.
CommandTarget(command) ==
    CASE command = <<"go", "clean", "-modcache">>          -> ExpandHome(GoModCache)
      [] command = <<"go", "clean", "-cache">>             -> ExpandHome(getGoEnv("GOCACHE"))
      [] command = <<"npm", "cache", "clean", "--force">>  -> ExpandHome(NpmCache)
      [] command = <<"yarn", "cache", "clean">>            -> ExpandHome(YarnCache)
      [] command = <<"pnpm", "store", "prune">>            -> ExpandHome(PnpmStore)
      [] command = <<"pip", "cache", "purge">>             -> ExpandHome(PipCache)
      [] command = <<"composer", "clear-cache">>           -> ExpandHome(ComposerCache)
      [] OTHER                                              -> << >>

\* Whether the action can fail: a subprocess can always exit non-zero or fail
\* to start; RemoveAll can fail only on something that exists.
CanFail(a) ==
    \/ a.kind = "command"
    \/ a.kind = "reject"
    \/ a.kind = "remove" /\ a.arg \in DOMAIN fs

\* Whether the action returns without error: "reject" never does.
Outcomes(a) == {ok \in BOOLEAN : (~ok => CanFail(a)) /\ (ok => a.kind # "reject")}

\* The filesystem after the action, ok telling whether it succeeded.
FsAfter(a, ok) ==
    IF ~ok THEN fs
    ELSE IF a.kind = "command" THEN RemoveAll(fs, CommandTarget(a.arg))
    ELSE IF a.kind = "remove" THEN RemoveAll(fs, a.arg)
    ELSE fs

\* Variant of Account: a failing item also takes back what was counted before.
Account_RollBack(r, item, ok) ==
    IF ~ok
    THEN [r EXCEPT !.Errors = Append(@, "failed to clean " \o item.Description),
                   !.ItemsCleaned = 0, !.SpaceReclaimed = 0]
    ELSE [r EXCEPT !.ItemsCleaned = @ + 1, !.SpaceReclaimed = @ + item.Size]

\* Variant of Account: the newest error is put in front of the older ones.
Account_NewestErrorFirst(r, item, ok) ==
    IF ~ok
    THEN [r EXCEPT !.Errors = <<"failed to clean " \o item.Description>> \o @]
    ELSE [r EXCEPT !.ItemsCleaned = @ + 1, !.SpaceReclaimed = @ + item.Size]

\* The tail of the loop body: on error append and continue, else count the item.
Account(r, item, ok) ==
    IF ~ok
    THEN [r EXCEPT !.Errors = Append(@, "failed to clean " \o item.Description)]
    ELSE [r EXCEPT !.ItemsCleaned = @ + 1, !.SpaceReclaimed = @ + item.Size]

\* Variant of NextItem: a failing item is tried again instead of skipped.
NextItem_RetryOnError(ok) == IF ok THEN ci + 1 ELSE ci

\* Variant of NextItem: a failing item ends the loop instead of continuing.
NextItem_BreakOnError(ok) == IF ok THEN ci + 1 ELSE Len(items) + 1

\* Where the range loop goes after an item, failed (`continue`) or counted.
NextItem(ok) == ci + 1

\* One iteration of `for _, item := range items` in the running Clean.  A
\* panic ends the call without a return value.
CleanStep ==
    /\ cpc = "clean"
    /\ ci <= Len(items)
    /\ LET item == items[ci]
           a == CleanAction(cleaner, item)
       IN  IF a.kind = "panic"
           THEN /\ cpc' = "panicked"
                /\ UNCHANGED <<probeVars, fs, result, cleanLog, ci>>
           ELSE \E ok \in Outcomes(a) :
                  /\ fs' = FsAfter(a, ok)
                  /\ result' = Account(result, item, ok)
                  /\ cleanLog' = Append(cleanLog,
                         [call |-> callNo, cleaner |-> cleaner, item |-> ci, kind |-> a.kind,
                          arg |-> a.arg, ok |-> ok, rec |-> item,
                          existed |-> item.Path # << >> /\ PathExists(item.Path)])
                  /\ ci' = NextItem(ok)
                  /\ cpc' = cpc
    /\ UNCHANGED <<probeVars, orchVars, scanVars, execOnPath, goEnv, cleaner, items, callNo, callResults>>

\* return result, nil
CleanReturn ==
    /\ cpc = "clean"
    /\ ci > Len(items)
    /\ callResults' = Append(callResults, result)
    /\ cpc' = "returned"
    /\ UNCHANGED <<probeVars, orchVars, scanVars, fs, execOnPath, goEnv, cleaner, items, ci, result, cleanLog, callNo>>

\* The log entries of call n, in order.
EntriesOfCall(n) == SelectSeq(cleanLog, LAMBDA e : e.call = n)

\* ------------------------------------------------------ dhell clean <language>

\* No cleanProvider call is in progress.
NoCall == [provider |-> "", items |-> << >>, fsBefore |-> << >>, out |-> << >>,
           input |-> << >>, gate |-> "none", cleanCalls |-> 0]

\* provider.Name(), letter by letter.
NameChars(p) ==
    CASE p = "Golang"  -> <<"G", "o", "l", "a", "n", "g">>
      [] p = "Node.js" -> <<"N", "o", "d", "e", ".", "j", "s">>
      [] p = "Java"    -> <<"J", "a", "v", "a">>
      [] p = "Python"  -> <<"P", "y", "t", "h", "o", "n">>
      [] p = "PHP"     -> <<"P", "H", "P">>
      [] p = "Rust"    -> <<"R", "u", "s", "t">>

RECURSIVE FirstMatch(_, _)
\* The loop with break: the first provider whose lower-cased name contains lang.
FirstMatch(ps, lang) ==
    IF ps = << >> THEN << >>
    ELSE IF Contains(ToLower(NameChars(Head(ps))), lang) THEN <<Head(ps)>>
    ELSE FirstMatch(Tail(ps), lang)

\* runClean's selection: everything for "all", else the first match.
SelectProviders(arg) ==
    LET lang == ToLower(arg)
    IN  IF lang = <<"a", "l", "l">> THEN allProviders ELSE FirstMatch(allProviders, lang)

\* Variant of ConfirmClean: anything that starts with "y" is a yes, and what
\* was read before a read error still counts.
ConfirmClean_LeadingY(stdin) ==
    LET response == ToLower(TrimSpace(ReadString(stdin).line))
    IN  response # << >> /\ Head(response) = "y"

\* Variant of ConfirmClean: the comparison without strings.ToLower.
ConfirmClean_CaseSensitive(stdin) ==
    LET r == ReadString(stdin)
        response == TrimSpace(r.line)
    IN  IF r.err THEN FALSE
        ELSE response = <<"y">> \/ response = <<"y", "e", "s">>

\* cleaner.ConfirmClean's answer to what the user typed: a read error is a
\* no, otherwise the trimmed, lower-cased line must be "y" or "yes".
ConfirmClean(stdin) ==
    LET r == ReadString(stdin)
        response == ToLower(TrimSpace(r.line))
    IN  IF r.err THEN FALSE
        ELSE response = <<"y">> \/ response = <<"y", "e", "s">>

\* Variant of HasUnsafeItems: set only when every item is unsafe.
HasUnsafeItems_OnlyIfAll(its) == \A i \in DOMAIN its : ~its[i].Safe

\* hasUnsafeItems
HasUnsafeItems(its) == \E i \in DOMAIN its : ~its[i].Safe

\* One printed line of the clean report.
Line(kind, text, size) == [kind |-> kind, text |-> text, size |-> size]

\* RenderCleanResult: with nothing cleaned one line and an early return; else
\* the header, a line per item of the list, the total when positive, and the
\* errors under their own header.
RenderCleanResult(res, its) ==
    IF res.ItemsCleaned = 0
    THEN <<Line("none", "No items were cleaned.", 0)>>
    ELSE <<Line("header", "Cleaning completed!", 0), Line("cleaned-header", "Cleaned:", 0)>>
         \o [i \in DOMAIN its |-> Line("cleaned", its[i].Description, its[i].Size)]
         \o (IF res.SpaceReclaimed > 0
             THEN <<Line("total", "Total space reclaimed", res.SpaceReclaimed)>>
             ELSE << >>)
         \o (IF Len(res.Errors) > 0
             THEN <<Line("errors-header", "Errors encountered:", 0)>>
                  \o [i \in DOMAIN res.Errors |-> Line("error", res.Errors[i], 0)]
             ELSE << >>)

\* The record runLog keeps of a finished cleanProvider call; report is what
\* RenderCleanResult printed, when Clean was called.
Finished(c, outcome, res) ==
    [provider |-> c.provider, items |-> c.items, fsBefore |-> c.fsBefore, out |-> c.out,
     report |-> IF res = << >> THEN << >> ELSE RenderCleanResult(res[1], c.items),
     input |-> c.input,
     gate |-> c.gate, cleanCalls |-> c.cleanCalls, outcome |-> outcome, fsAfter |-> fs,
     result |-> res]

\* runClean up to its loop: select the providers, or report an unknown language.
SelectStep ==
    /\ cpc = "start"
    /\ selected' = SelectProviders(language)
    /\ cpc' = IF Len(selected') = 0 THEN "exit" ELSE "fetch"
    /\ UNCHANGED <<probeVars, scanVars, fs, execOnPath, goEnv, cleaner, items, ci, result, cleanLog,
                   callNo, callResults, language, dryRun, force, provIdx, cur, runLog>>

\* Variant of AfterProvider: a call that ends without having cleaned (no
\* items, preview, decline) ends the loop over the providers as well.
AfterProvider_StopUnlessCleaned ==
    IF cpc # "returned" \/ provIdx + 1 > Len(selected) THEN "exit" ELSE "fetch"

\* The position after the current cleanProvider call: the next provider or the end.
AfterProvider == IF provIdx + 1 > Len(selected) THEN "exit" ELSE "fetch"

\* Variant of FetchDecision: the empty list is tested after the flags.
FetchDecision_EmptyLast(its) ==
    IF dryRun THEN "preview"
    ELSE IF force THEN "clean"
    ELSE IF Len(its) = 0 THEN "nothing"
    ELSE "confirm"

\* Variant of FetchDecision: --force is tested before --dry-run.
FetchDecision_ForceFirst(its) ==
    IF Len(its) = 0 THEN "nothing"
    ELSE IF force THEN "clean"
    ELSE IF dryRun THEN "preview"
    ELSE "confirm"

\* The order of cleanProvider's tests: no items, then --dry-run, then --force.
FetchDecision(its) ==
    IF Len(its) = 0 THEN "nothing"
    ELSE IF dryRun THEN "preview"
    ELSE IF force THEN "clean"
    ELSE "confirm"

\* cleanProvider, from GetCleanableItems to the confirmation: "nothing to
\* clean" and the dry-run preview end the call; --force goes straight to Clean.
FetchItems ==
    /\ cpc = "fetch"
    /\ LET p == selected[provIdx]
           its == GetCleanableItems(p)
           c0 == [NoCall EXCEPT !.provider = p, !.items = its, !.fsBefore = fs]
           next == FetchDecision(its)
       IN  IF next = "nothing"
           THEN /\ runLog' = Append(runLog, Finished([c0 EXCEPT !.out = <<"nothing">>], "nothing", << >>))
                /\ provIdx' = provIdx + 1
                /\ cpc' = AfterProvider
                /\ cur' = NoCall
                /\ UNCHANGED <<probeVars, cleaner, items, ci, result, callNo>>
           ELSE IF next = "preview"
           THEN /\ runLog' = Append(runLog, Finished([c0 EXCEPT !.out = <<"preview">>], "preview", << >>))
                /\ provIdx' = provIdx + 1
                /\ cpc' = AfterProvider
                /\ cur' = NoCall
                /\ UNCHANGED <<probeVars, cleaner, items, ci, result, callNo>>
           ELSE IF next = "clean"
           THEN /\ cur' = [c0 EXCEPT !.gate = "force", !.cleanCalls = 1]
                /\ cleaner' = p
                /\ items' = its
                /\ ci' = 1
                /\ result' = ZeroCleanResult
                /\ callNo' = callNo + 1
                /\ cpc' = "clean"
                /\ UNCHANGED <<probeVars, provIdx, runLog>>
           ELSE /\ cur' = c0
                /\ items' = its
                /\ cpc' = "confirm"
                /\ UNCHANGED <<probeVars, cleaner, ci, result, callNo, provIdx, runLog>>
    /\ UNCHANGED <<probeVars, scanVars, fs, execOnPath, goEnv, cleanLog, callResults, language, dryRun,
                   force, selected>>

\* What the user may type at the prompt (the last two end without a newline).
StdinInputs ==
    {<<"y", "\n">>, <<"Y", "e", "s", "\n">>, <<" ", "y", " ", "\n">>,
     <<"n", "\n">>, <<"y", "e", "s", " ", "p", "l", "e", "a", "s", "e", "\n">>, <<"\n">>,
     <<"y">>, << >>}

\* cleanProvider's `if !force` block: the warning for unsafe items, then
\* ConfirmClean's prompt and its reading of the answer.
Confirm ==
    /\ cpc = "confirm"
    /\ \E stdin \in StdinInputs :
          LET printed == (IF HasUnsafeItems(items) THEN <<"warning">> ELSE << >>) \o <<"prompt">>
              c1 == [cur EXCEPT !.out = @ \o printed, !.input = <<stdin>>]
          IN  IF ~ConfirmClean(stdin)
              THEN /\ runLog' = Append(runLog,
                          Finished([c1 EXCEPT !.gate = "declined", !.out = @ \o <<"cancelled">>],
                                   "cancelled", << >>))
                   /\ provIdx' = provIdx + 1
                   /\ cpc' = AfterProvider
                   /\ cur' = NoCall
                   /\ UNCHANGED <<probeVars, cleaner, ci, result, callNo>>
              ELSE /\ cur' = [c1 EXCEPT !.gate = "confirmed", !.cleanCalls = 1]
                   /\ cleaner' = cur.provider
                   /\ ci' = 1
                   /\ result' = ZeroCleanResult
                   /\ callNo' = callNo + 1
                   /\ cpc' = "clean"
                   /\ UNCHANGED <<probeVars, provIdx, runLog>>
    /\ UNCHANGED <<probeVars, scanVars, fs, execOnPath, goEnv, items, cleanLog, callResults, language,
                   dryRun, force, selected>>

\* cleanProvider after provider.Clean returned (its error is always nil):
\* print RenderCleanResult.
Report ==
    /\ cpc = "returned"
    /\ runLog' = Append(runLog, Finished([cur EXCEPT !.out = @ \o <<"result">>], "cleaned", <<result>>))
    /\ provIdx' = provIdx + 1
    /\ cpc' = AfterProvider
    /\ cur' = NoCall
    /\ UNCHANGED <<probeVars, scanVars, fs, execOnPath, goEnv, cleaner, items, ci, result, cleanLog,
                   callNo, callResults, language, dryRun, force, selected>>

\* The cache directories the providers clean, with distinct sizes.
CleanDirs ==
    (<<"/", "go", "pkg", "mod">>      :> 1) @@
    (<<"/", "go-build">>              :> 2) @@
    (ExpandHome(NpmCache)             :> 3) @@
    (ExpandHome(YarnCache)            :> 4) @@
    (ExpandHome(PnpmStore)            :> 5) @@
    (ExpandHome(GradleCache)          :> 6) @@
    (ExpandHome(MavenRepo)            :> 7) @@
    (ExpandHome(PipCache)             :> 8) @@
    (ExpandHome(ComposerCache)        :> 9) @@
    (ExpandHome(CargoRegistry)        :> 10) @@
    (ExpandHome(CargoGit)             :> 11)

\* What the user may give as <language>.
Languages ==
    {<<"g", "o">>, <<"n", "o", "d", "e">>, <<"J", "a", "v", "a">>,
     <<"p", "y", "t", "h", "o", "n">>, <<"p", "h", "p">>, <<"r", "u", "s", "t">>,
     <<"a", "l", "l">>, <<"r", "u", "b", "y">>}

\* dhell clean <language> [--dry-run] [--force] on a machine where at most
\* MaxDirs of the cache directories exist.
InitClean ==
    /\ goEnv = GoEnvFull
    /\ execOnPath = [p \in Providers |-> "ok"]
    /\ \E present \in SUBSET DOMAIN CleanDirs :
          /\ Cardinality(present) <= MaxDirs
          /\ fs = [q \in present |-> CleanDirs[q]]
    /\ language \in Languages
    /\ dryRun \in BOOLEAN
    /\ force \in BOOLEAN
    /\ selected = << >>
    /\ provIdx = 1
    /\ cur = NoCall
    /\ runLog = << >>
    /\ cleaner = "" /\ items = << >> /\ ci = 1 /\ result = ZeroCleanResult
    /\ cleanLog = << >> /\ callNo = 0 /\ callResults = << >> /\ cpc = "start"
    /\ providers = << >> /\ results = << >> /\ wg = 0 /\ scanPc = "idle"
    /\ scanIdx = 1 /\ task = << >> /\ writeLog = << >> /\ returned = << >>
    /\ probeLog = << >>

NextClean ==
    \/ SelectStep
    \/ FetchItems
    \/ Confirm
    \/ CleanStep
    \/ CleanReturn
    \/ Report

SpecClean == InitClean /\ [][NextClean]_vars

\* ------------------------------------------------------ clean-workflow claims

\* C2: with --dry-run, provider.Clean is never invoked, no cleanup command
\* is run and no path is deleted, whatever --force and the items are: every
\* cleanProvider call ends as "nothing to clean" or as a preview and leaves
\* the filesystem as it found it.
C2_DryRunNeverMutates ==
    dryRun =>
        /\ callNo = 0
        /\ cleanLog = << >>
        /\ cpc \notin {"confirm", "clean", "returned"}
        /\ \A k \in DOMAIN runLog :
              /\ runLog[k].outcome \in {"nothing", "preview"}
              /\ runLog[k].cleanCalls = 0
              /\ runLog[k].fsAfter = runLog[k].fsBefore
        /\ runLog # << >> => fs = runLog[1].fsBefore

\* C2 witness: --dry-run together with --force previewed Java's items, the
\* unsafe Maven repository among them.
C2_Witness ==
    /\ dryRun
    /\ force
    /\ \E k \in DOMAIN runLog :
          /\ runLog[k].provider = "Java"
          /\ runLog[k].outcome = "preview"
    /\ PathExists(MavenRepo)

\* What the user typed on the line: the text before the first newline.
TypedLine(stdin) ==
    LET nl == {i \in DOMAIN stdin : stdin[i] = "\n"}
    IN  IF nl = {} THEN stdin
        ELSE SubSeq(stdin, 1, (CHOOSE i \in nl : \A j \in nl : i <= j) - 1)

\* The line could not be read: the stream ended before a newline.
ReadFailed(stdin) == \A i \in DOMAIN stdin : stdin[i] # "\n"

IsYes(str) == ToLower(str) \in {<<"y">>, <<"y", "e", "s">>}

\* A finished cleanProvider call that declined: cancelled, Clean never
\* invoked for that provider, filesystem as before.
DeclinedRun(r) ==
    /\ r.outcome = "cancelled"
    /\ r.gate = "declined"
    /\ r.cleanCalls = 0
    /\ r.fsAfter = r.fsBefore
    /\ \A k \in DOMAIN cleanLog : cleanLog[k].cleaner # r.provider

\* C3 (as claimed): without --force, any typed line other than "y" or "yes"
\* (case-insensitive), and any read failure, is a decline.
C3_AnyOtherResponseDeclines ==
    /\ \A k \in DOMAIN runLog :
          (runLog[k].input # << >>
           /\ (ReadFailed(runLog[k].input[1]) \/ ~IsYes(TypedLine(runLog[k].input[1]))))
          => DeclinedRun(runLog[k])
    /\ (cur.input # << >>
        /\ (ReadFailed(cur.input[1]) \/ ~IsYes(TypedLine(cur.input[1]))))
       => cur.gate # "confirmed"

\* C3 (amended): without --force, any typed line that, once leading and
\* trailing white space is removed, is other than "y" or "yes"
\* (case-insensitive), and any read failure, is a decline: Clean is not
\* invoked, nothing is mutated and the call ends cancelled.  "n",
\* "yes please", the empty line and a stream that ends are such inputs.
C3_ConfirmationGate ==
    LET declines(stdin) ==
            \/ ReadFailed(stdin)
            \/ ~IsYes(TrimSpace(TypedLine(stdin)))
            \/ stdin \in {<<"n", "\n">>, <<"\n">>, << >>,
                           <<"y", "e", "s", " ", "p", "l", "e", "a", "s", "e", "\n">>}
    IN  /\ \A k \in DOMAIN runLog :
              (runLog[k].input # << >> /\ declines(runLog[k].input[1]))
              => DeclinedRun(runLog[k])
        /\ (cur.input # << >> /\ declines(cur.input[1])) => cur.gate # "confirmed"
        /\ \A k \in DOMAIN runLog : runLog[k].input # << >> => ~force

\* C3 witness: "yes please" was typed for a provider that had items, and the
\* call ended cancelled.
C3_Witness ==
    \E k \in DOMAIN runLog :
        /\ runLog[k].input = <<<<"y", "e", "s", " ", "p", "l", "e", "a", "s", "e", "\n">>>>
        /\ runLog[k].outcome = "cancelled"
        /\ runLog[k].fsBefore # << >>
        /\ ~force /\ ~dryRun

\* The finished cleanProvider calls that went through provider.Clean, in order.
CleanedRuns == SelectSeq(runLog, LAMBDA r : r.outcome = "cleaned")

\* The user's line was read and is "y" or "yes" in some letter case.
AnsweredYes(r) ==
    /\ r.input # << >>
    /\ ~ReadFailed(r.input[1])
    /\ IsYes(TypedLine(r.input[1]))

\* C11: in a clean without --dry-run and with items, provider.Clean(items) is
\* invoked exactly once when --force is set (nothing is read then) or when the
\* answer is "y" or "yes" in any letter case, and the CleanResult it returned
\* is the one reported.
C11_CleanInvokedOnceAndReported ==
    /\ \A k \in DOMAIN runLog :
          LET r == runLog[k]
          IN  (~dryRun /\ r.items # << >> /\ (force \/ AnsweredYes(r))) =>
                  /\ r.outcome = "cleaned"
                  /\ r.cleanCalls = 1
                  /\ r.result # << >>
                  /\ r.out[Len(r.out)] = "result"
                  /\ force => (r.input = << >> /\ r.gate = "force" /\ r.out = <<"result">>)
                  /\ ~force => r.gate = "confirmed"
    /\ \A j \in DOMAIN CleanedRuns :
          /\ j <= Len(callResults)
          /\ CleanedRuns[j].result = <<callResults[j]>>
          /\ Len(EntriesOfCall(j)) = Len(CleanedRuns[j].items)
          /\ \A e \in Range(EntriesOfCall(j)) : e.cleaner = CleanedRuns[j].provider
    /\ callNo = Len(CleanedRuns) + (IF cpc \in {"clean", "returned"} THEN 1 ELSE 0)
    /\ (~dryRun /\ cur.items # << >> /\ (force \/ AnsweredYes(cur))) =>
          (cpc \in {"clean", "returned"} /\ cur.cleanCalls = 1)

\* C11 witness: "Yes" was answered, Clean ran once and its result, with an
\* item cleaned, was reported; and a forced run was reported without a prompt.
C11_Witness ==
    \E k \in DOMAIN runLog :
        /\ runLog[k].input = <<<<"Y", "e", "s", "\n">>>>
        /\ runLog[k].outcome = "cleaned"
        /\ runLog[k].result[1].ItemsCleaned >= 1
        /\ runLog[k].cleanCalls = 1
        /\ ~force /\ ~dryRun

\* C12: when GetCleanableItems returns no items, cleanProvider reports that
\* there is nothing to clean and returns: no prompt is printed, no input is
\* read and provider.Clean is not invoked, whatever --dry-run and --force are.
C12_EmptyListStopsAtOnce ==
    /\ \A k \in DOMAIN runLog :
          LET r == runLog[k]
          IN  r.items = << >> =>
                  /\ r.outcome = "nothing"
                  /\ r.out = <<"nothing">>
                  /\ r.input = << >>
                  /\ r.gate = "none"
                  /\ r.cleanCalls = 0
                  /\ r.result = << >>
                  /\ r.fsAfter = r.fsBefore
                  /\ \A j \in DOMAIN cleanLog : cleanLog[j].cleaner # r.provider
    /\ cpc \in {"confirm", "clean", "returned"} => cur.items # << >>

\* C12 witness: a forced clean, not a dry run, found nothing for a provider
\* and said so.
C12_Witness ==
    /\ force
    /\ ~dryRun
    /\ \E k \in DOMAIN runLog :
          /\ runLog[k].items = << >>
          /\ runLog[k].outcome = "nothing"

\* C13: without --force and --dry-run, a list with at least one item that is
\* not safe gets the elevated warning printed before the confirmation prompt;
\* a list of safe items only gets the prompt and no elevated warning.
C13_UnsafeItemsWarnBeforePrompt ==
    LET surfaced(c) ==
            IF \E i \in DOMAIN c.items : ~c.items[i].Safe
            THEN /\ Len(c.out) >= 2
                 /\ c.out[1] = "warning"
                 /\ c.out[2] = "prompt"
            ELSE /\ c.out[1] = "prompt"
                 /\ "warning" \notin Range(c.out)
    IN  /\ \A k \in DOMAIN runLog :
              (~force /\ ~dryRun /\ runLog[k].items # << >>) => surfaced(runLog[k])
        /\ (~force /\ ~dryRun /\ cpc \in {"clean", "returned"}) => surfaced(cur)

\* C13 witness: Java's list, with the Gradle cache and the unsafe Maven
\* repository, was warned about and then prompted for.
C13_Witness ==
    /\ ~force
    /\ ~dryRun
    /\ \E k \in DOMAIN runLog :
          /\ runLog[k].provider = "Java"
          /\ Len(runLog[k].items) = 2
          /\ runLog[k].items[1].Safe
          /\ ~runLog[k].items[2].Safe
          /\ runLog[k].out[1] = "warning"
          /\ runLog[k].out[2] = "prompt"

\* The confirmation gate was passed: an affirmative answer, or --force.
GatePassed(c) == c.gate \in {"force", "confirmed"}

\* C14: within one clean run of a provider each item is subjected to at most
\* one destructive action (one command or one recursive delete), and nothing
\* destructive happens before the gate was passed: every logged action belongs
\* to a call that passed the gate, and a call that did not pass it left the
\* filesystem alone.
C14_AtMostOneActionAfterGate ==
    /\ \A j, k \in DOMAIN cleanLog :
          (cleanLog[j].call = cleanLog[k].call /\ cleanLog[j].item = cleanLog[k].item)
          => j = k
    /\ \A k \in DOMAIN cleanLog :
          /\ cleanLog[k].kind \in {"command", "remove", "none", "reject"}
          /\ \/ cur.provider = cleanLog[k].cleaner /\ GatePassed(cur)
             \/ \E j \in DOMAIN runLog :
                   runLog[j].provider = cleanLog[k].cleaner /\ GatePassed(runLog[j])
    /\ \A k \in DOMAIN runLog :
          ~GatePassed(runLog[k]) =>
              /\ runLog[k].fsAfter = runLog[k].fsBefore
              /\ \A j \in DOMAIN cleanLog : cleanLog[j].cleaner # runLog[k].provider
    /\ (cur.provider # "" /\ ~GatePassed(cur)) =>
          /\ fs = cur.fsBefore
          /\ \A j \in DOMAIN cleanLog : cleanLog[j].cleaner # cur.provider

\* C14 witness: after an affirmative answer a provider's two items were each
\* acted on once, the first action failing.
C14_Witness ==
    /\ cur.gate = "confirmed"
    /\ cpc = "returned"
    /\ Len(items) = 2
    /\ Len(EntriesOfCall(callNo)) = 2
    /\ ~EntriesOfCall(callNo)[1].ok
    /\ EntriesOfCall(callNo)[2].ok
    /\ EntriesOfCall(callNo)[1].kind # "none"

\* C19 (as claimed): when a clean ends with ItemsCleaned = 0 and errors, the
\* report has the nothing-was-cleaned statement and one itemized message per
\* entry of Errors, in order.
C19_ZeroCleanedReportItemizesErrors ==
    \A k \in DOMAIN runLog :
        LET r == runLog[k]
        IN  (/\ r.outcome = "cleaned"
             /\ r.result[1].ItemsCleaned = 0
             /\ r.result[1].Errors # << >>) =>
                LET errorLines == SelectSeq(r.report, LAMBDA l : l.kind = "error")
                IN  /\ \E i \in DOMAIN r.report : r.report[i].kind = "none"
                    /\ [i \in DOMAIN errorLines |-> errorLines[i].text] = r.result[1].Errors


\* The error messages a Clean collects for log entries es, in their order.
ErrorsOf(es) ==
    LET failed == SelectSeq(es, LAMBDA e : ~e.ok)
    IN  [i \in DOMAIN failed |-> "failed to clean " \o failed[i].rec.Description]

\* C27: a provider's Clean takes the items one at a time in the order
\* GetCleanableItems returned them: the actions of a call are logged for
\* items 1, 2, ... of the fetched list without gap or repetition, each log
\* entry is complete before the next action begins (the log is ordered by
\* call and then by item), and the Errors of the result are the messages of
\* the failed items in item order.
C27_ItemsCleanedInListOrder ==
    /\ \A j, k \in DOMAIN cleanLog :
          j < k => \/ cleanLog[j].call < cleanLog[k].call
                   \/ /\ cleanLog[j].call = cleanLog[k].call
                      /\ cleanLog[j].item < cleanLog[k].item
    /\ cpc \in {"clean", "returned"} =>
          LET es == EntriesOfCall(callNo)
          IN  /\ Len(es) = ci - 1
              /\ \A k \in DOMAIN es : es[k].item = k /\ es[k].rec = cur.items[k]
              /\ result.Errors = ErrorsOf(es)
    /\ \A n \in DOMAIN CleanedRuns :
          LET es == EntriesOfCall(n)
          IN  /\ [k \in DOMAIN es |-> es[k].rec] = CleanedRuns[n].items
              /\ CleanedRuns[n].result[1].Errors = ErrorsOf(es)

\* C27 witness: both items of a provider failed, and the report carries the
\* two errors in the order of the items.
C27_Witness ==
    \E n \in DOMAIN CleanedRuns :
        /\ Len(CleanedRuns[n].items) = 2
        /\ CleanedRuns[n].items[1].Description # CleanedRuns[n].items[2].Description
        /\ CleanedRuns[n].result[1].Errors =
              <<"failed to clean " \o CleanedRuns[n].items[1].Description,
                "failed to clean " \o CleanedRuns[n].items[2].Description>>


\* The cleanProvider call that made Clean call n: a finished one, or the one
\* still running.
CallOfClean(n) == IF n <= Len(CleanedRuns) THEN CleanedRuns[n] ELSE cur

\* C28 (as claimed): in a run without --dry-run an item with Safe = false is
\* acted on only after the warning for unsafe items was printed in the same
\* cleanProvider call, with --force or without.
C28_UnsafeItemsNeedTheWarning ==
    \A k \in DOMAIN cleanLog :
        (~cleanLog[k].rec.Safe /\ cleanLog[k].kind \in {"command", "remove"}) =>
            \E i \in DOMAIN CallOfClean(cleanLog[k].call).out :
                CallOfClean(cleanLog[k].call).out[i] = "warning"


\* C30: in `clean all` the providers are taken one after another in
\* registration order, whatever the earlier calls did (no items, declined,
\* cleaned with errors), until all of them had their call; every action of
\* a Clean belongs to a call of the same provider that passed its own gate
\* (--force, or an affirmative answer read in that very call) and is on an
\* item of that call's own list; and a call that did not pass its gate
\* left the filesystem as it was.
C30_CleanAllGatesEachProvider ==
    selected = allProviders =>
        /\ Len(runLog) <= Len(allProviders)
        /\ \A k \in DOMAIN runLog : runLog[k].provider = allProviders[k]
        /\ cur.provider # "" => cur.provider = allProviders[Len(runLog) + 1]
        /\ cpc = "exit" => Len(runLog) = Len(allProviders)
        /\ \A k \in DOMAIN cleanLog :
              LET c == CallOfClean(cleanLog[k].call)
              IN  /\ c.provider = cleanLog[k].cleaner
                  /\ GatePassed(c)
                  /\ c.gate = "force" => force /\ c.input = << >>
                  /\ c.gate = "confirmed" => c.input # << >> /\ ConfirmClean(c.input[1])
                  /\ \E i \in DOMAIN c.items : c.items[i] = cleanLog[k].rec
        /\ \A k \in DOMAIN runLog :
              /\ ~GatePassed(runLog[k]) => runLog[k].fsAfter = runLog[k].fsBefore
              /\ k > 1 => runLog[k].fsBefore = runLog[k - 1].fsAfter

\* C30 witness: `clean all` ended after one provider was declined, the
\* providers after it had nothing to clean, and a later provider was
\* confirmed and cleaned with an error.
C30_Witness ==
    /\ selected = allProviders
    /\ cpc = "exit"
    /\ \E i, j, k \in DOMAIN runLog :
          /\ i < j /\ j < k
          /\ runLog[i].outcome = "cancelled"
          /\ runLog[j].outcome = "nothing"
          /\ runLog[k].outcome = "cleaned"
          /\ runLog[k].gate = "confirmed"
          /\ runLog[k].result[1].Errors # << >>


\* ------------------------------------------------- Clean called directly

\* Everything that has a Clean loop: the six providers and cleaner.CleanItems.
Cleaners == Providers \cup {"CleanItems", "CleanItems(dryRun)"}

\* Directories the sample items live in, with distinct sizes.
HarnessDirs ==
    (<<"/", "go-build">>              :> 1) @@
    (ExpandHome(GradleCache)          :> 2) @@
    (ExpandHome(MavenRepo)            :> 4) @@
    (ExpandHome(ComposerCache)        :> 8)

\* Sample items: command only, path only (safe and not), path and command,
\* and a command of white space only.
HarnessItems ==
    {Item(<<"/", "go-build">>, << >>, "Go Build Cache", <<"go", "clean", "-cache">>, TRUE),
     Item(GradleCache, GradleCache, "Gradle Cache", << >>, TRUE),
     Item(MavenRepo, MavenRepo, "Maven Repository", << >>, FALSE),
     Item(ComposerCache, ComposerCache, "Composer Cache", <<"composer", "clear-cache">>, TRUE),
     Item(<< >>, << >>, "Blank Command", <<"">>, TRUE)}

RECURSIVE SeqsUpTo(_, _)
\* Every sequence over S of length at most n.
SeqsUpTo(S, n) ==
    IF n = 0 THEN {<< >>}
    ELSE LET shorter == SeqsUpTo(S, n - 1)
         IN  shorter \cup {Append(q, x) : q \in shorter, x \in S}

\* A test or caller hands any cleaner any item list; a directory may already
\* be missing when it does.
InitProviderClean ==
    /\ goEnv = GoEnvFull
    /\ execOnPath = [p \in Providers |-> "ok"]
    /\ \E gone \in SUBSET DOMAIN HarnessDirs :
          /\ Cardinality(gone) <= 1
          /\ fs = [q \in DOMAIN HarnessDirs \ gone |-> HarnessDirs[q]]
    /\ cleaner \in Cleaners
    /\ items \in SeqsUpTo(HarnessItems, MaxItems)
    /\ ci = 1
    /\ result = ZeroCleanResult
    /\ cleanLog = << >>
    /\ callNo = 1
    /\ callResults = << >>
    /\ cpc = "clean"
    /\ providers = << >> /\ results = << >> /\ wg = 0 /\ scanPc = "idle"
    /\ scanIdx = 1 /\ task = << >> /\ writeLog = << >> /\ returned = << >>
    /\ language = << >> /\ dryRun = FALSE /\ force = FALSE /\ selected = << >>
    /\ provIdx = 1 /\ cur = NoCall /\ runLog = << >>
    /\ probeLog = << >>

\* The caller calls Clean again with the same items.
CallAgain ==
    /\ cpc = "returned"
    /\ callNo < MaxCalls
    /\ callNo' = callNo + 1
    /\ ci' = 1
    /\ result' = ZeroCleanResult
    /\ cpc' = "clean"
    /\ UNCHANGED <<probeVars, orchVars, scanVars, fs, execOnPath, goEnv, cleaner, items, cleanLog, callResults>>

NextProviderClean ==
    \/ CleanStep
    \/ CleanReturn
    \/ CallAgain

SpecProviderClean == InitProviderClean /\ [][NextProviderClean]_vars

\* ------------------------------------------------------- Clean-loop claims

\* C7 (as claimed): a provider's second Clean on items a first Clean already
\* cleaned without error returns itemsCleaned = 0, spaceReclaimed = 0 and no
\* errors.
C7_SecondCleanCountsNothing ==
    (/\ cleaner \in Providers
     /\ Len(callResults) >= 2
     /\ callResults[1].Errors = << >>)
    => /\ callResults[2].ItemsCleaned = 0
       /\ callResults[2].SpaceReclaimed = 0
       /\ callResults[2].Errors = << >>

\* C8 (as claimed): for every provider, an item that carries a command has
\* that command run as a subprocess, and is counted only when it was run
\* and exited successfully.
C8_CommandItemsRunTheirCommand ==
    cleaner \in Providers =>
        \A k \in DOMAIN cleanLog :
            LET e == cleanLog[k]
                item == e.rec
            IN  item.Command # << >> =>
                    /\ e.kind = "command"
                    /\ e.arg = item.Command

C10_FailuresAreIsolated ==
    /\ cpc \in {"clean", "returned"} =>
          LET es == EntriesOfCall(callNo)
          IN  /\ Len(es) = ci - 1
              /\ \A k \in DOMAIN es : es[k].item = k
              /\ Len(result.Errors) = Cardinality({k \in DOMAIN es : ~es[k].ok})
              /\ result.ItemsCleaned = Cardinality({k \in DOMAIN es : es[k].ok})
    /\ \A n \in DOMAIN callResults :
          /\ callResults[n].ItemsCleaned + Len(callResults[n].Errors) = Len(items)
          /\ Len(EntriesOfCall(n)) = Len(items)

\* C10 witness: a Clean has returned after its first item failed and a later
\* item was still cleaned.
C10_Witness ==
    /\ callResults # << >>
    /\ Len(items) >= 2
    /\ ~cleanLog[1].ok
    /\ cleanLog[2].ok
    /\ callResults[1].ItemsCleaned = 1
    /\ Len(callResults[1].Errors) = 1

\* The items of call n whose operation returned no error, in order.
SucceededItems(n) ==
    LET es == SelectSeq(EntriesOfCall(n), LAMBDA e : e.ok)
    IN  [i \in DOMAIN es |-> es[i].rec]

ZeroScanResult ==
    [Provider |-> << >>, Installation |-> << >>, DiskUsage |-> << >>, Error |-> << >>]

\* scanProvider as one call: what it returns for provider p on this machine.
scanProvider(p) ==
    LET d == DetectInstalled(p)
        r == [ZeroScanResult EXCEPT !.Provider = <<p>>]
    IN  IF d.err # << >> THEN [r EXCEPT !.Error = d.err]
        ELSE IF Len(d.installations) = 0 THEN [r EXCEPT !.Error = <<"not installed">>]
        ELSE [r EXCEPT !.Installation = <<d.installations[1]>>,
                       !.DiskUsage = <<GetGlobalCacheUsage(p)>>]

\* for i, provider := range providers { wg.Add(1); go func(index, p) {...}(i, provider) }
Dispatch ==
    /\ scanPc = "loop"
    /\ scanIdx <= Len(providers)
    /\ wg' = wg + 1
    /\ task' = Append(task, [pc |-> "detect", index |-> scanIdx, p |-> providers[scanIdx],
                             result |-> [ZeroScanResult EXCEPT !.Provider = <<providers[scanIdx]>>]])
    /\ scanIdx' = scanIdx + 1
    /\ UNCHANGED <<probeVars, orchVars, cleanVars, fs, execOnPath, goEnv, providers, results, scanPc, writeLog, returned>>

\* The range loop is exhausted: scanProviders reaches wg.Wait().
LoopExit ==
    /\ scanPc = "loop"
    /\ scanIdx > Len(providers)
    /\ scanPc' = "wait"
    /\ UNCHANGED <<probeVars, orchVars, cleanVars, fs, execOnPath, goEnv, providers, results, wg, scanIdx, task, writeLog, returned>>

\* Variant of TaskDetect: a failed detection records the error and goes on to
\* the measurement instead of returning.
TaskDetect_MeasureAnyway(t) ==
    /\ t \in DOMAIN task
    /\ task[t].pc = "detect"
    /\ LET d == DetectInstalled(task[t].p)
       IN  task' = [task EXCEPT ![t] =
                IF d.err # << >>
                THEN [@ EXCEPT !.pc = "usage", !.result.Error = d.err]
                ELSE IF Len(d.installations) = 0
                THEN [@ EXCEPT !.pc = "usage", !.result.Error = <<"not installed">>]
                ELSE [@ EXCEPT !.pc = "usage", !.result.Installation = <<d.installations[1]>>]]
    /\ UNCHANGED <<probeVars, orchVars, cleanVars, fs, execOnPath, goEnv, providers, results, wg, scanPc, scanIdx, writeLog, returned>>

\* scanProvider, first half: provider.DetectInstalled() and its two early returns.
TaskDetect(t) ==
    /\ t \in DOMAIN task
    /\ task[t].pc = "detect"
    /\ LET d == DetectInstalled(task[t].p)
       IN  task' = [task EXCEPT ![t] =
                IF d.err # << >>
                THEN [@ EXCEPT !.pc = "store", !.result.Error = d.err]
                ELSE IF Len(d.installations) = 0
                THEN [@ EXCEPT !.pc = "store", !.result.Error = <<"not installed">>]
                ELSE [@ EXCEPT !.pc = "usage", !.result.Installation = <<d.installations[1]>>]]
    /\ UNCHANGED <<probeVars, orchVars, cleanVars, fs, execOnPath, goEnv, providers, results, wg, scanPc, scanIdx, writeLog, returned>>

\* Variant of TaskUsage: a sibling's failure cancels the measurement (errgroup style).
TaskUsage_CancelOnSiblingError(t) ==
    /\ t \in DOMAIN task
    /\ task[t].pc = "usage"
    /\ task' = [task EXCEPT ![t] = [@ EXCEPT !.pc = "store",
                    !.result.DiskUsage =
                        IF \E u \in DOMAIN task : task[u].result.Error # << >>
                        THEN << >> ELSE <<GetGlobalCacheUsage(task[t].p)>>]]
    /\ UNCHANGED <<probeVars, orchVars, cleanVars, fs, execOnPath, goEnv, providers, results, wg, scanPc, scanIdx, writeLog, returned>>

\* scanProvider, second half: provider.GetGlobalCacheUsage() (its error is always nil).
TaskUsage(t) ==
    /\ t \in DOMAIN task
    /\ task[t].pc = "usage"
    /\ task' = [task EXCEPT ![t] = [@ EXCEPT !.pc = "store",
                    !.result.DiskUsage = <<GetGlobalCacheUsage(task[t].p)>>]]
    /\ UNCHANGED <<probeVars, orchVars, cleanVars, fs, execOnPath, goEnv, providers, results, wg, scanPc, scanIdx, writeLog, returned>>

\* Variant of TaskStore: results are placed in completion order.
TaskStore_CompletionOrder(t) ==
    /\ t \in DOMAIN task
    /\ task[t].pc = "store"
    /\ results' = [results EXCEPT ![Len(writeLog) + 1] = task[t].result]
    /\ writeLog' = Append(writeLog, [task |-> t, slot |-> Len(writeLog) + 1])
    /\ task' = [task EXCEPT ![t].pc = "deferred"]
    /\ UNCHANGED <<probeVars, orchVars, cleanVars, fs, execOnPath, goEnv, providers, wg, scanPc, scanIdx, returned>>

\* Variant of TaskStore: the goroutine reads the loop variable instead of its
\* own index parameter.
TaskStore_SharedLoopVariable(t) ==
    LET i == IF scanIdx > Len(providers) THEN Len(providers) ELSE scanIdx
    IN  /\ t \in DOMAIN task
        /\ task[t].pc = "store"
        /\ results' = [results EXCEPT ![i] = task[t].result]
        /\ writeLog' = Append(writeLog, [task |-> t, slot |-> i])
        /\ task' = [task EXCEPT ![t].pc = "deferred"]
        /\ UNCHANGED <<probeVars, orchVars, cleanVars, fs, execOnPath, goEnv, providers, wg, scanPc, scanIdx, returned>>

\* results[index] = scanProvider(p)
TaskStore(t) ==
    /\ t \in DOMAIN task
    /\ task[t].pc = "store"
    /\ results' = [results EXCEPT ![task[t].index] = task[t].result]
    /\ writeLog' = Append(writeLog, [task |-> t, slot |-> task[t].index])
    /\ task' = [task EXCEPT ![t].pc = "deferred"]
    /\ UNCHANGED <<probeVars, orchVars, cleanVars, fs, execOnPath, goEnv, providers, wg, scanPc, scanIdx, returned>>

\* defer wg.Done()
TaskDone(t) ==
    /\ t \in DOMAIN task
    /\ task[t].pc = "deferred"
    /\ wg' = wg - 1
    /\ task' = [task EXCEPT ![t].pc = "exited"]
    /\ UNCHANGED <<probeVars, orchVars, cleanVars, fs, execOnPath, goEnv, providers, results, scanPc, scanIdx, writeLog, returned>>

\* Variant of WaitReturn: the caller does not wait for the counter.
WaitReturn_NoWait ==
    /\ scanPc = "wait"
    /\ scanPc' = "returned"
    /\ returned' = <<results>>
    /\ UNCHANGED <<probeVars, orchVars, cleanVars, fs, execOnPath, goEnv, providers, results, wg, scanIdx, task, writeLog>>

\* wg.Wait() unblocks when the counter is zero; return results.
WaitReturn ==
    /\ scanPc = "wait"
    /\ wg = 0
    /\ scanPc' = "returned"
    /\ returned' = <<results>>
    /\ UNCHANGED <<probeVars, orchVars, cleanVars, fs, execOnPath, goEnv, providers, results, wg, scanIdx, task, writeLog>>

\* A sample home directory: some caches present, with distinct sizes.
SampleFs ==
    (Home \o <<".npm", "_cacache">>             :> 5) @@
    (Home \o <<".m2", "repository">>            :> 7) @@
    (Home \o <<".gradle", "caches">>            :> 11) @@
    (Home \o <<"Library", "Caches", "pip">>     :> 13) @@
    (Home \o <<".cargo", "registry">>           :> 17) @@
    (<<"/", "opt", "homebrew", "Cellar", "php", "8.3.0">> :> 19) @@
    (<<"/", "go", "pkg", "mod">>                 :> 23)

\* runScan hands scanProviders a non-empty selection of allProviders, in
\* registration order; only the selected providers are ever probed.
InitScan ==
    /\ fs = SampleFs
    /\ goEnv = GoEnvGopathOnly
    /\ providers \in {s \in SubSeqs(allProviders) : Len(s) >= 1 /\ Len(s) <= MaxProviders}
    /\ execOnPath \in {f \in [Providers -> {"absent", "ok"}] :
                            \A p \in Providers \ Range(providers) : f[p] = "ok"}
    /\ results = [i \in 1..Len(providers) |-> ZeroScanResult]
    /\ wg = 0
    /\ scanPc = "loop"
    /\ scanIdx = 1
    /\ task = << >>
    /\ writeLog = << >>
    /\ returned = << >>
    /\ cleaner = "" /\ items = << >> /\ ci = 1 /\ result = ZeroCleanResult
    /\ cleanLog = << >> /\ callNo = 0 /\ callResults = << >> /\ cpc = "idle"
    /\ language = << >> /\ dryRun = FALSE /\ force = FALSE /\ selected = << >>
    /\ provIdx = 1 /\ cur = NoCall /\ runLog = << >>
    /\ probeLog = << >>

NextScan ==
    \/ Dispatch
    \/ LoopExit
    \/ \E t \in 1..MaxProviders + 1 : TaskDetect(t)
    \/ \E t \in 1..MaxProviders + 1 : TaskUsage(t)
    \/ \E t \in 1..MaxProviders + 1 : TaskStore(t)
    \/ \E t \in 1..MaxProviders + 1 : TaskDone(t)
    \/ WaitReturn

SpecScan == InitScan /\ [][NextScan]_vars

\* ---------------------------------------------------------------- scan claims

\* C1: scanProviders returns a sequence as long as its input whose entry i is
\* the result of input provider i, whatever order the tasks complete in.
C1_ScanPreservesInputOrder ==
    returned # << >> =>
        /\ Len(returned[1]) = Len(providers)
        /\ \A i \in 1..Len(providers) : returned[1][i] = scanProvider(providers[i])

\* C1 witness: three providers, the second one's task stored first, and the
\* call has returned.
C1_Witness ==
    /\ returned # << >>
    /\ Len(providers) = 3
    /\ writeLog[1].slot = 2

\* C4: a provider whose executable is absent gets an entry with the error and
\* no disk usage, and every sibling still gets its own installation and disk
\* usage, computed from that sibling and the machine alone.
C4_ScanFailureIsolation ==
    returned # << >> =>
        \A i \in 1..Len(providers) :
            LET r == returned[1][i]
                p == providers[i]
            IN  IF execOnPath[p] = "absent"
                THEN /\ r.Error = <<Executable(p) \o " not found in PATH">>
                     /\ r.Installation = << >>
                     /\ r.DiskUsage = << >>
                ELSE /\ r.Error = << >>
                     /\ r.Installation = <<DetectInstalled(p).installations[1]>>
                     /\ r.DiskUsage = <<GetGlobalCacheUsage(p)>>

\* C4 witness: a returned batch holding an absent provider and a sibling
\* whose caches are not empty.
C4_Witness ==
    /\ returned # << >>
    /\ \E i, j \in 1..Len(providers) :
          /\ execOnPath[providers[i]] = "absent"
          /\ execOnPath[providers[j]] = "ok"
          /\ returned[1][j].DiskUsage # << >>
          /\ returned[1][j].DiskUsage[1].Total > 0

\* C5: scanProviders returns only after every dispatched task has finished:
\* at the return every task has exited, every slot has been written with its
\* provider's result, and the value returned is the slice as it then stands.
C5_ReturnsAfterAllTasks ==
    scanPc = "returned" =>
        /\ Len(task) = Len(providers)
        /\ \A t \in DOMAIN task : task[t].pc = "exited"
        /\ \A i \in 1..Len(providers) :
              /\ \E k \in DOMAIN writeLog : writeLog[k].slot = i
              /\ results[i].Provider = <<providers[i]>>
        /\ returned = <<results>>

\* C5 witness: a call over three providers has returned.
C5_Witness ==
    /\ scanPc = "returned"
    /\ Len(providers) = 3
    /\ Len(writeLog) = 3

\* C6: every task stores into the slot of its own input index, at most once
\* (exactly once by the time it has stored), and no two stores hit one slot.
C6_DisjointSlotWrites ==
    /\ \A k \in DOMAIN writeLog :
          /\ writeLog[k].slot = task[writeLog[k].task].index
          /\ task[writeLog[k].task].p = providers[writeLog[k].slot]
    /\ \A j, k \in DOMAIN writeLog :
          j # k => /\ writeLog[j].slot # writeLog[k].slot
                   /\ writeLog[j].task # writeLog[k].task
    /\ \A t \in DOMAIN task :
          task[t].pc \in {"deferred", "exited"} =>
              Cardinality({k \in DOMAIN writeLog : writeLog[k].task = t}) = 1

\* C6 witness: two tasks have stored while a third is still running.
C6_Witness ==
    /\ Len(writeLog) = 2
    /\ \E t \in DOMAIN task : task[t].pc \in {"detect", "usage", "store"}

\* The two shapes of a scan result: the error alone, or an installation and
\* a disk usage without error.
ErrorShape(r) == r.Error # << >> /\ r.Installation = << >> /\ r.DiskUsage = << >>
FoundShape(r) == r.Error = << >> /\ r.Installation # << >> /\ r.DiskUsage # << >>

\* C29: every result a task stores, and so every entry scanProviders returns,
\* has exactly one of the two shapes; a task reaches GetGlobalCacheUsage only
\* with an installation from a successful DetectInstalled in hand, and a task
\* whose detection failed never reaches it and never carries a disk usage.
C29_ResultShapesAndUsageAfterDetect ==
    /\ \A k \in DOMAIN writeLog :
          LET r == results[writeLog[k].slot]
          IN  (ErrorShape(r) \/ FoundShape(r)) /\ ~(ErrorShape(r) /\ FoundShape(r))
    /\ returned # << >> =>
          \A i \in DOMAIN returned[1] :
              ErrorShape(returned[1][i]) \/ FoundShape(returned[1][i])
    /\ \A t \in DOMAIN task :
          LET d == DetectInstalled(task[t].p)
          IN  /\ (task[t].pc = "usage" \/ task[t].result.DiskUsage # << >>) =>
                    /\ d.err = << >>
                    /\ Len(d.installations) >= 1
                    /\ task[t].result.Installation = <<d.installations[1]>>
                    /\ task[t].result.Error = << >>
              /\ (d.err # << >> \/ Len(d.installations) = 0) =>
                    /\ task[t].pc # "usage"
                    /\ task[t].result.DiskUsage = << >>

\* C29 witness: a returned batch with an entry of each shape.
C29_Witness ==
    /\ returned # << >>
    /\ \E i, j \in DOMAIN returned[1] :
          /\ ErrorShape(returned[1][i])
          /\ FoundShape(returned[1][j])
          /\ returned[1][j].DiskUsage[1].Items # << >>


\* ------------------------------------------------ dhell scan: the rendered table

\* One line of the table: kind is "header", "separator", "message", "error"
\* (a provider's error row), "result" (a provider's first row) or "usage" (a
\* disk-usage breakdown row).
Row(kind, lang, text, total) == [kind |-> kind, language |-> lang, text |-> text, total |-> total]

RECURSIVE UsageRows(_)
\* The breakdown loop of renderResultRows: one row per item with Size > 0.
UsageRows(its) ==
    IF its = << >> THEN << >>
    ELSE (IF Head(its).Size > 0
          THEN <<Row("usage", "", Head(its).Description, Head(its).Size)>>
          ELSE << >>) \o UsageRows(Tail(its))

\* renderResultRows: the provider's row with the total, then the breakdown.
renderResultRows(r) ==
    <<Row("result", r.Provider[1], "Total", r.DiskUsage[1].Total)>>
        \o UsageRows(r.DiskUsage[1].Items)

\* renderErrorRow: the red marker, the provider's name, "N/A", "Not Found"
\* and the error text.
renderErrorRow(r) == <<Row("error", r.Provider[1], r.Error[1], 0)>>

RECURSIVE TableRows(_, _)
\* The row loop of a table: the rows of every result, each followed by a
\* separator; withErrors tells whether results with an error get their row.
TableRows(rs, withErrors) ==
    IF rs = << >> THEN << >>
    ELSE LET r == Head(rs)
         IN  (IF r.Error # << >>
              THEN (IF withErrors
                    THEN renderErrorRow(r) \o <<Row("separator", "", "", 0)>>
                    ELSE << >>)
              ELSE renderResultRows(r) \o <<Row("separator", "", "", 0)>>)
             \o TableRows(Tail(rs), withErrors)

\* RenderScanResults of internal/output/table.go: the results with an error
\* are filtered out first; with nothing left only a message is returned.
RenderScanResults(rs) ==
    LET validResults == SelectSeq(rs, LAMBDA r : r.Error = << >>)
    IN  IF Len(validResults) = 0
        THEN <<Row("message", "", "No languages detected in your environment.", 0)>>
        ELSE <<Row("header", "", "STATUS LANGUAGE VERSION SOURCE DISK USAGE", 0),
               Row("separator", "", "", 0)>>
             \o TableRows(validResults, FALSE)

\* RenderScanResults of the styled renderer (renderTable): every result gets
\* rows, renderErrorRow for the ones with an error.
RenderScanResultsStyled(rs) ==
    <<Row("header", "", "STATUS LANGUAGE VERSION SOURCE DISK USAGE", 0),
      Row("separator", "", "", 0)>>
    \o TableRows(rs, TRUE)

\* The machines scanned: each selected provider's executable is missing,
\* failing its version command, or fine.
InitRender ==
    /\ fs = SampleFs
    /\ goEnv = GoEnvGopathOnly
    /\ providers \in {s \in SubSeqs(allProviders) : Len(s) >= 1 /\ Len(s) <= MaxProviders}
    /\ execOnPath \in {f \in [Providers -> {"absent", "broken", "ok"}] :
                            \A p \in Providers \ Range(providers) : f[p] = "ok"}
    /\ results = [i \in 1..Len(providers) |-> scanProvider(providers[i])]
    /\ returned = <<results>>
    /\ scanPc = "returned"
    /\ wg = 0 /\ scanIdx = Len(providers) + 1 /\ task = << >> /\ writeLog = << >>
    /\ cleaner = "" /\ items = << >> /\ ci = 1 /\ result = ZeroCleanResult
    /\ cleanLog = << >> /\ callNo = 0 /\ callResults = << >> /\ cpc = "idle"
    /\ language = << >> /\ dryRun = FALSE /\ force = FALSE /\ selected = << >>
    /\ provIdx = 1 /\ cur = NoCall /\ runLog = << >>
    /\ probeLog = << >>

\* runScan's last step with the renderer of internal/output/table.go.
RenderPlain ==
    /\ scanPc = "returned"
    /\ probeLog = << >>
    /\ probeLog' = <<[op |-> "RenderScanResults", renderer |-> "table.go",
                      results |-> returned[1], rows |-> RenderScanResults(returned[1])]>>
    /\ UNCHANGED <<fs, execOnPath, goEnv, scanVars, cleanVars, orchVars>>

\* runScan's last step with the styled renderer.
RenderStyled ==
    /\ scanPc = "returned"
    /\ probeLog = << >>
    /\ probeLog' = <<[op |-> "RenderScanResults", renderer |-> "styled",
                      results |-> returned[1], rows |-> RenderScanResultsStyled(returned[1])]>>
    /\ UNCHANGED <<fs, execOnPath, goEnv, scanVars, cleanVars, orchVars>>

NextRender ==
    \/ RenderPlain
    \/ RenderStyled

SpecRender == InitRender /\ [][NextRender]_vars

\* The rows of a rendered table that stand for a provider.
ProviderRows(rows) == SelectSeq(rows, LAMBDA w : w.kind \in {"error", "result"})

\* C18 (as claimed): the scan output has one row with an error marker for
\* every scanned provider whose result carries an error, instead of omitting
\* it: as many provider rows as scan results, in the same order.
C18_ErrorRowPerFailedProvider ==
    \A k \in DOMAIN probeLog :
        probeLog[k].op = "RenderScanResults" =>
            LET rs == probeLog[k].results
                pr == ProviderRows(probeLog[k].rows)
            IN  /\ Len(pr) = Len(rs)
                /\ \A i \in DOMAIN rs :
                      /\ pr[i].language = rs[i].Provider[1]
                      /\ rs[i].Error # << >> <=> pr[i].kind = "error"

\* -------------------------------------------- measurement operations, called
\* -------------------------------------------- one by one

\* The machines looked at: every provider's executable fine, or one of them
\* missing from PATH or failing its version command.
ProbeMachines ==
    {[p \in Providers |-> IF p = q THEN st ELSE "ok"] :
        q \in Providers, st \in {"absent", "broken", "ok"}}

\* The paths CalculateDirSize is asked about: caches of SampleFs, and paths
\* that exist on no machine ("~/.yarn", "/nonexistent", "" and "~").
ProbePaths ==
    {NpmCache, <<"/", "go", "pkg", "mod">>,
     <<"~", ".yarn">>, <<"/", "nonexistent">>, << >>, <<"~">>}

InitProbe ==
    /\ fs \in {SampleFs, << >>}
    /\ goEnv = GoEnvGopathOnly
    /\ execOnPath \in ProbeMachines
    /\ probeLog = << >>
    /\ providers = << >> /\ results = << >> /\ wg = 0 /\ scanPc = "idle"
    /\ scanIdx = 1 /\ task = << >> /\ writeLog = << >> /\ returned = << >>
    /\ cleaner = "" /\ items = << >> /\ ci = 1 /\ result = ZeroCleanResult
    /\ cleanLog = << >> /\ callNo = 0 /\ callResults = << >> /\ cpc = "idle"
    /\ language = << >> /\ dryRun = FALSE /\ force = FALSE /\ selected = << >>
    /\ provIdx = 1 /\ cur = NoCall /\ runLog = << >>

\* provider.DetectInstalled()
ProbeDetect ==
    /\ Len(probeLog) < MaxProbes
    /\ \E p \in Providers :
          probeLog' = Append(probeLog,
              [op |-> "DetectInstalled", provider |-> p, exe |-> execOnPath[p],
               out |-> DetectInstalled(p)])
    /\ UNCHANGED <<fs, execOnPath, goEnv, scanVars, cleanVars, orchVars>>

\* scanner.CalculateDirSize(path)
ProbeDirSize ==
    /\ Len(probeLog) < MaxProbes
    /\ \E path \in ProbePaths :
          probeLog' = Append(probeLog,
              [op |-> "CalculateDirSize", path |-> path, existed |-> PathExists(path),
               size |-> CalculateDirSize(path), err |-> CalculateDirSizeError(path)])
    /\ UNCHANGED <<fs, execOnPath, goEnv, scanVars, cleanVars, orchVars>>

NextProbe ==
    \/ ProbeDetect
    \/ ProbeDirSize

SpecProbe == InitProbe /\ [][NextProbe]_vars

\* ---------------------------------------------------------- measurement claims

\* The calls of one operation in probeLog.
ProbesOf(op) == {k \in DOMAIN probeLog : probeLog[k].op = op}

\* C17 (as claimed): DetectInstalled fails only when the executable is not on
\* the search path, with the not-found error; whenever the executable is
\* resolved it succeeds and returns exactly one Installation.
C17_DetectFailsOnlyWithNotFound ==
    \A k \in ProbesOf("DetectInstalled") :
        LET e == probeLog[k]
        IN  /\ e.out.err # << >> =>
                  /\ e.exe = "absent"
                  /\ e.out.err = <<Executable(e.provider) \o " not found in PATH">>
            /\ e.exe # "absent" =>
                  /\ e.out.err = << >>
                  /\ Len(e.out.installations) = 1

\* C20: for every path that does not exist CalculateDirSize returns 0 and a
\* nil error.
C20_MissingPathHasSizeZero ==
    \A k \in ProbesOf("CalculateDirSize") :
        ~probeLog[k].existed =>
            /\ probeLog[k].size = 0
            /\ probeLog[k].err = << >>

\* C20 witness: CalculateDirSize was asked about "~/.yarn", which does not
\* exist on a machine that has other caches, and about the empty path.
C20_Witness ==
    /\ fs # << >>
    /\ \E j, k \in ProbesOf("CalculateDirSize") :
          /\ probeLog[j].path = <<"~", ".yarn">>
          /\ ~probeLog[j].existed
          /\ probeLog[j].size = 0
          /\ probeLog[k].path = << >>
          /\ probeLog[k].size = 0

\* ------------------------------------- CalculateDirSize on a directory tree

\* A directory tree is a function from the path below the root (<< >> is the
\* root) to [kind, size, fault]: kind is "dir", "file" or "symlink"; size is
\* what Lstat reports for the entry (for a symlink the length of its target);
\* fault tells whether the entry fails when it is touched: Lstat for the
\* root, ReadDir for a directory, DirEntry.Info for anything else.
Entry(kind, size, fault) == [kind |-> kind, size |-> size, fault |-> fault]

\* The entries directly below directory p.
Children(tree, p) ==
    {q \in DOMAIN tree : Len(q) = Len(p) + 1 /\ SubSeq(q, 1, Len(p)) = p}

RECURSIVE SumOver(_, _)
\* The sum of f over the finite set S.
SumOver(f, S) ==
    IF S = {} THEN 0
    ELSE LET x == CHOOSE y \in S : TRUE IN f[x] + SumOver(f, S \ {x})

RECURSIVE walkDir(_, _)
\* filepath.WalkDir below p with CalculateDirSize's callback, as the bytes it
\* adds to size: a directory adds nothing itself, and nothing at all when
\* ReadDir fails on it (the callback returns nil and no entry was read);
\* anything else adds info.Size() unless d.Info() fails.
walkDir(tree, p) ==
    IF tree[p].kind = "dir"
    THEN IF tree[p].fault THEN 0
         ELSE LET kids == Children(tree, p)
              IN  SumOver([q \in kids |-> walkDir(tree, q)], kids)
    ELSE IF tree[p].fault THEN 0 ELSE tree[p].size

\* Variant of WalkDirError: the callback hands a per-entry error back, which
\* ends the walk with that error.
WalkDirError_ReturnEntryError(tree) ==
    IF \E p \in DOMAIN tree : tree[p].fault THEN <<"permission denied">> ELSE << >>

\* The error filepath.WalkDir returns: the callback returns nil for every
\* entry, so nil.
WalkDirError(tree) == << >>

\* The trees measured: root/{a, d/{b, l}, c}; a, d and b may fail, the root
\* may have vanished, l is a symlink or a regular file.
SampleTrees ==
    {(<< >>         :> Entry("dir", 96, rootGone)) @@
     (<<"a">>       :> Entry("file", 1, aFails)) @@
     (<<"d">>       :> Entry("dir", 64, dFails)) @@
     (<<"d", "b">>  :> Entry("file", 2, bFails)) @@
     (<<"d", "l">>  :> Entry(lKind, 4, FALSE)) @@
     (<<"c">>       :> Entry("file", 8, FALSE)) :
        rootGone \in BOOLEAN, aFails \in BOOLEAN, dFails \in BOOLEAN,
        bFails \in BOOLEAN, lKind \in {"file", "symlink"}}

InitWalk ==
    /\ fs = << >>
    /\ goEnv = GoEnvNone
    /\ execOnPath = [p \in Providers |-> "ok"]
    /\ probeLog = << >>
    /\ providers = << >> /\ results = << >> /\ wg = 0 /\ scanPc = "idle"
    /\ scanIdx = 1 /\ task = << >> /\ writeLog = << >> /\ returned = << >>
    /\ cleaner = "" /\ items = << >> /\ ci = 1 /\ result = ZeroCleanResult
    /\ cleanLog = << >> /\ callNo = 0 /\ callResults = << >> /\ cpc = "idle"
    /\ language = << >> /\ dryRun = FALSE /\ force = FALSE /\ selected = << >>
    /\ provIdx = 1 /\ cur = NoCall /\ runLog = << >>

\* CalculateDirSize on an existing path whose tree is `tree`.
WalkTree ==
    /\ Len(probeLog) < MaxWalks
    /\ \E tree \in SampleTrees :
          probeLog' = Append(probeLog,
              [op |-> "WalkDir", tree |-> tree, size |-> walkDir(tree, << >>),
               err |-> WalkDirError(tree)])
    /\ UNCHANGED <<fs, execOnPath, goEnv, scanVars, cleanVars, orchVars>>

SpecWalk == InitWalk /\ [][WalkTree]_vars

\* The entries the walk can reach: no directory above them, the root
\* included, fails.
Accessible(tree, p) ==
    \A n \in 0..(Len(p) - 1) : ~tree[SubSeq(p, 1, n)].fault

\* The sum of the sizes of the entries of the given kinds that are reachable
\* and do not fail themselves.
SizeOfKinds(tree, kinds) ==
    LET S == {p \in DOMAIN tree :
                 tree[p].kind \in kinds /\ ~tree[p].fault /\ Accessible(tree, p)}
    IN  SumOver([p \in S |-> tree[p].size], S)

\* C21: a failure on a single entry is skipped without ending the walk: the
\* size still counts every entry that is not a directory, does not fail
\* itself and lies below no failing directory, and the error returned is nil.
C21_WalkSkipsFailingEntries ==
    \A k \in ProbesOf("WalkDir") :
        LET e == probeLog[k]
        IN  /\ e.err = << >>
            /\ e.size = SizeOfKinds(e.tree, {"file", "symlink"})
            /\ (~e.tree[<< >>].fault /\ ~e.tree[<<"c">>].fault) => e.size >= e.tree[<<"c">>].size

\* C21 witness: a file failed, a subdirectory was unreadable, and the file
\* after them was still counted.
C21_Witness ==
    \E k \in ProbesOf("WalkDir") :
        LET t == probeLog[k].tree
        IN  /\ ~t[<< >>].fault
            /\ t[<<"a">>].fault
            /\ t[<<"d">>].fault
            /\ probeLog[k].size = 8
            /\ probeLog[k].err = << >>

\* C22 (as claimed): for an existing tree without failures the size is the
\* sum of the byte lengths of its regular files; directories and every other
\* kind of entry, a symlink for one, contribute nothing.
C22_SizeIsSumOfRegularFiles ==
    \A k \in ProbesOf("WalkDir") :
        LET e == probeLog[k]
        IN  (\A p \in DOMAIN e.tree : ~e.tree[p].fault) =>
                e.size = SizeOfKinds(e.tree, {"file"})


\* ------------------------------------- provider operations on varied machines

\* SampleFs with the Go SDK and build cache present as well.
GoFs ==
    SampleFs @@
    (<<"/", "usr", "local", "go">> :> 29) @@
    (<<"/", "go-build">>           :> 31)

InitMeasure ==
    /\ fs \in {GoFs, << >>}
    /\ goEnv \in {GoEnvFull, GoEnvGopathOnly, GoEnvNone}
    /\ execOnPath \in {[p \in Providers |-> IF p = "PHP" THEN st ELSE "ok"] :
                          st \in {"ok", "absent"}}
    /\ probeLog = << >>
    /\ providers = << >> /\ results = << >> /\ wg = 0 /\ scanPc = "idle"
    /\ scanIdx = 1 /\ task = << >> /\ writeLog = << >> /\ returned = << >>
    /\ cleaner = "" /\ items = << >> /\ ci = 1 /\ result = ZeroCleanResult
    /\ cleanLog = << >> /\ callNo = 0 /\ callResults = << >> /\ cpc = "idle"
    /\ language = << >> /\ dryRun = FALSE /\ force = FALSE /\ selected = << >>
    /\ provIdx = 1 /\ cur = NoCall /\ runLog = << >>

\* What a measurement call leaves in the log: the operation, the provider,
\* the filesystem before and after the call, and what the call returned.
Measured(op, p, out, after) ==
    [op |-> op, provider |-> p, fsBefore |-> fs, fsAfter |-> after, out |-> out]

\* Variant of FsAfterMeasure: GetGlobalCacheUsage creates the locations it
\* does not find, empty.
FsAfterMeasure_CreateMissing(op, p) ==
    IF op # "GetGlobalCacheUsage" THEN fs
    ELSE LET missing == {ExpandHome(CacheLocations(p)[i].Path) : i \in DOMAIN CacheLocations(p)}
                           \ (DOMAIN fs \cup {<< >>})
         IN  fs @@ [q \in missing |-> 0]

\* The filesystem a measurement operation leaves: none of the four writes;
\* they call LookPath, EvalSymlinks, the version command, `go env`, Getenv,
\* PathExists and CalculateDirSize only.
FsAfterMeasure(op, p) == fs

\* provider.DetectInstalled()
MeasureDetect ==
    /\ Len(probeLog) < MaxMeasures
    /\ UNCHANGED <<execOnPath, goEnv, scanVars, cleanVars, orchVars>>
    /\ \E p \in Providers :
          /\ fs' = FsAfterMeasure("DetectInstalled", p)
          /\ probeLog' = Append(probeLog,
                Measured("DetectInstalled", p, DetectInstalled(p), fs'))

\* provider.GetGlobalCacheUsage()
MeasureUsage ==
    /\ Len(probeLog) < MaxMeasures
    /\ UNCHANGED <<execOnPath, goEnv, scanVars, cleanVars, orchVars>>
    /\ \E p \in Providers :
          /\ fs' = FsAfterMeasure("GetGlobalCacheUsage", p)
          /\ probeLog' = Append(probeLog,
                Measured("GetGlobalCacheUsage", p,
                         [usage |-> GetGlobalCacheUsage(p), err |-> << >>], fs'))

\* provider.GetEnvVars()
MeasureEnvVars ==
    /\ Len(probeLog) < MaxMeasures
    /\ UNCHANGED <<execOnPath, goEnv, scanVars, cleanVars, orchVars>>
    /\ \E p \in Providers :
          /\ fs' = FsAfterMeasure("GetEnvVars", p)
          /\ probeLog' = Append(probeLog, Measured("GetEnvVars", p, GetEnvVars(p), fs'))

\* provider.GetCleanableItems()
MeasureItems ==
    /\ Len(probeLog) < MaxMeasures
    /\ UNCHANGED <<execOnPath, goEnv, scanVars, cleanVars, orchVars>>
    /\ \E p \in Providers :
          /\ fs' = FsAfterMeasure("GetCleanableItems", p)
          /\ probeLog' = Append(probeLog,
                Measured("GetCleanableItems", p,
                         [items |-> GetCleanableItems(p), err |-> << >>], fs'))

\* A clean between two measurements: one listed item of a provider is
\* cleaned and the action succeeds.
MeasureClean ==
    /\ Len(probeLog) < MaxMeasures
    /\ UNCHANGED <<execOnPath, goEnv, scanVars, cleanVars, orchVars>>
    /\ \E p \in Providers : \E i \in DOMAIN GetCleanableItems(p) :
          LET a == CleanAction(p, GetCleanableItems(p)[i])
          IN  /\ a.kind \in {"command", "remove"}
              /\ fs' = FsAfter(a, TRUE)
              /\ probeLog' = Append(probeLog, Measured("Clean", p, a, fs'))

NextMeasure ==
    \/ MeasureDetect
    \/ MeasureUsage
    \/ MeasureEnvVars
    \/ MeasureItems
    \/ MeasureClean

SpecMeasure == InitMeasure /\ [][NextMeasure]_vars

\* The well-known locations of a provider that exist in filesystem f.
ExistingLocations(p, f) ==
    {i \in DOMAIN CacheLocations(p) :
        /\ CacheLocations(p)[i].Path # << >>
        /\ ExpandHome(CacheLocations(p)[i].Path) \in DOMAIN f}

\* C23: the DiskUsage of GetGlobalCacheUsage has a total equal to the sum of
\* its items' sizes, no item has a negative size, and when none of the
\* provider's locations exists the item list is empty, the total 0 and the
\* error nil.
C23_UsageTotalIsSumOfItems ==
    \A k \in ProbesOf("GetGlobalCacheUsage") :
        LET e == probeLog[k]
            u == e.out.usage
        IN  /\ u.Total = SumSizes(u.Items)
            /\ \A i \in DOMAIN u.Items : u.Items[i].Size >= 0
            /\ e.out.err = << >>
            /\ ExistingLocations(e.provider, e.fsBefore) = {} =>
                  /\ u.Items = << >>
                  /\ u.Total = 0

\* C23 witness: one call found two locations and added them up, another
\* found none.
C23_Witness ==
    \E j, k \in ProbesOf("GetGlobalCacheUsage") :
        /\ Len(probeLog[j].out.usage.Items) >= 2
        /\ probeLog[j].out.usage.Total > probeLog[j].out.usage.Items[1].Size
        /\ probeLog[k].out.usage.Items = << >>
        /\ probeLog[k].out.usage.Total = 0


\* --------------------------------------------- determineSource, called on its own

\* The resolved paths each determineSource is asked about: below a version
\* manager in the home directory, below a version manager inside Homebrew,
\* Homebrew alone, the provider's own system or manual location, a path with
\* the manager's name but not its marker, and a path that matches nothing.
ClassifyPaths(p) ==
    LET exe == Executable(p)
        HomeStr == PathString(Home)
        S(comps) == PathString(comps)
    IN  CASE p = "Golang" ->
                {HomeStr \o <<"/">> \o S(<<".goenv", "versions", "1.21.3", "bin", exe>>),
                 S(<<"/", "opt", "homebrew", ".goenv", "bin", exe>>),
                 S(<<"/", "usr", "local", "go", ".goenv", "bin", exe>>),
                 S(<<"/", "opt", "homebrew", "bin", exe>>),
                 S(<<"/", "usr", "local", "Cellar", "go", "1.21.3", "bin", exe>>),
                 S(<<"/", "usr", "local", "go", "bin", exe>>),
                 S(<<"/", "snap", "bin", exe>>)}
          [] p = "Node.js" ->
                {HomeStr \o <<"/">> \o S(<<".nvm", "versions", "node", "v20", "bin", exe>>),
                 HomeStr \o <<"/">> \o S(<<".volta", "bin", exe>>),
                 S(<<"/", "opt", "homebrew", ".nvm", "bin", exe>>),
                 S(<<"/", "opt", "homebrew", "bin", exe>>),
                 S(<<"/", "usr", "bin", exe>>)}
          [] p = "Python" ->
                {HomeStr \o <<"/">> \o S(<<".pyenv", "shims">>) \o <<"/", "python", "3">>,
                 S(<<"/", "opt", "homebrew">>) \o <<"/", "anaconda", "3", "/", "bin", "/", "python", "3">>,
                 S(<<"/", "opt", "homebrew", "bin">>) \o <<"/", "python", "3">>,
                 S(<<"/", "usr", "bin">>) \o <<"/", "python", "3">>,
                 S(<<"/", "snap", "bin">>) \o <<"/", "python", "3">>}
          [] p = "Java" ->
                {HomeStr \o <<"/">> \o S(<<".sdkman", "candidates", "java", "current", "bin", exe>>),
                 S(<<"/", "opt", "homebrew", "opt", "openjdk", "bin", exe>>),
                 S(<<"/", "Library", "Java", "JavaVirtualMachines", "jdk", "bin", exe>>),
                 S(<<"/", "usr", "bin", exe>>)}
          [] p = "PHP" ->
                {HomeStr \o <<"/">> \o S(<<".phpenv", "shims", exe>>),
                 S(<<"/", "opt", "homebrew", ".phpenv", "shims", exe>>),
                 S(<<"/", "opt", "homebrew", "Cellar", "php", "8.3.0", "bin", exe>>),
                 S(<<"/", "usr", "bin", exe>>),
                 S(<<"/", "snap", "bin", exe>>)}
          [] p = "Rust" ->
                {HomeStr \o <<"/">> \o S(<<".cargo", "bin", exe>>),
                 S(<<"/", "opt", "homebrew", ".cargo", "bin", exe>>),
                 S(<<"/", "opt", "homebrew", "bin", exe>>),
                 HomeStr \o <<"/">> \o S(<<".cargo", "registry", exe>>),
                 S(<<"/", "usr", "bin", exe>>)}

\* The JAVA_HOME values looked at; only Java reads the variable.
JavaHomes(p) ==
    IF p = "Java"
    THEN {<< >>,
          PathString(Home) \o <<"/">> \o PathString(<<".sdkman", "candidates", "java", "current">>),
          PathString(<<"/", "Library", "Java", "Home">>)}
    ELSE {<< >>}

InitClassify ==
    /\ fs = << >>
    /\ goEnv = GoEnvNone
    /\ execOnPath = [p \in Providers |-> "ok"]
    /\ probeLog = << >>
    /\ providers = << >> /\ results = << >> /\ wg = 0 /\ scanPc = "idle"
    /\ scanIdx = 1 /\ task = << >> /\ writeLog = << >> /\ returned = << >>
    /\ cleaner = "" /\ items = << >> /\ ci = 1 /\ result = ZeroCleanResult
    /\ cleanLog = << >> /\ callNo = 0 /\ callResults = << >> /\ cpc = "idle"
    /\ language = << >> /\ dryRun = FALSE /\ force = FALSE /\ selected = << >>
    /\ provIdx = 1 /\ cur = NoCall /\ runLog = << >>

\* p.determineSource(realPath)
Classify ==
    /\ Len(probeLog) < MaxClassify
    /\ \E p \in Providers : \E path \in ClassifyPaths(p) : \E javaHome \in JavaHomes(p) :
          probeLog' = Append(probeLog,
              [op |-> "determineSource", provider |-> p, path |-> path,
               javaHome |-> javaHome, source |-> determineSource(p, path, javaHome)])
    /\ UNCHANGED <<fs, execOnPath, goEnv, scanVars, cleanVars, orchVars>>

SpecClassify == InitClassify /\ [][Classify]_vars

\* Each provider's rule list, in the order listed: the fragments looked for
\* in the path, those looked for in JAVA_HOME, and the source of the rule.
Rule(inPath, inEnv, source) == [inPath |-> inPath, inEnv |-> inEnv, source |-> source]

SourceRules(p) ==
    LET HomebrewRule == Rule({OptHomebrew, UsrLocalCellar}, {}, SourceHomebrew)
    IN
    CASE p = "Golang"  -> <<Rule({<<".goenv">>}, {}, SourceVersionManager),
                            HomebrewRule,
                            Rule({PathString(<<"/", "usr", "local", "go">>)}, {}, SourceManual)>>
      [] p = "Node.js" -> <<Rule({<<".nvm">>}, {}, SourceVersionManager),
                            Rule({<<".volta">>}, {}, SourceVersionManager),
                            HomebrewRule>>
      [] p = "Python"  -> <<Rule({<<".pyenv">>}, {}, SourceVersionManager),
                            Rule({<<"anaconda">>, <<"miniconda">>}, {}, SourceVersionManager),
                            HomebrewRule,
                            Rule({PathString(<<"/", "usr", "bin", "python">>)}, {}, SourceSystem)>>
      [] p = "Java"    -> <<Rule({<<".sdkman">>}, {<<".sdkman">>}, SourceVersionManager),
                            HomebrewRule,
                            Rule({PathString(<<"/", "Library", "Java">>)}, {}, SourceManual)>>
      [] p = "PHP"     -> <<Rule({<<".phpenv">>}, {}, SourceVersionManager),
                            HomebrewRule,
                            Rule({PathString(<<"/", "usr", "bin", "php">>)}, {}, SourceSystem)>>
      [] p = "Rust"    -> <<Rule({<<".cargo", "/", "bin">>}, {}, SourceVersionManager),
                            HomebrewRule>>

\* The rules of provider p that a path and JAVA_HOME match.
MatchingRules(p, path, javaHome) ==
    {i \in DOMAIN SourceRules(p) :
        \/ \E f \in SourceRules(p)[i].inPath : Contains(path, f)
        \/ \E f \in SourceRules(p)[i].inEnv : Contains(javaHome, f)}

\* C24: determineSource returns the source of the earliest rule the path (and
\* JAVA_HOME) matches, Unknown when no rule matches, and the same source on
\* every call with the same provider, path and JAVA_HOME.
C24_FirstMatchingRuleWins ==
    /\ \A k \in ProbesOf("determineSource") :
          LET e == probeLog[k]
              m == MatchingRules(e.provider, e.path, e.javaHome)
          IN  IF m = {} THEN e.source = SourceUnknown
              ELSE e.source = SourceRules(e.provider)[CHOOSE i \in m : \A j \in m : i <= j].source
    /\ \A j, k \in ProbesOf("determineSource") :
          (/\ probeLog[j].provider = probeLog[k].provider
           /\ probeLog[j].path = probeLog[k].path
           /\ probeLog[j].javaHome = probeLog[k].javaHome)
              => probeLog[j].source = probeLog[k].source

\* C24 witness: a path below a version manager inside Homebrew, which matches
\* the version-manager rule and the Homebrew rule, was classified twice and
\* came out as Version Manager both times.
C24_Witness ==
    \E i, j \in ProbesOf("determineSource") :
        /\ i # j
        /\ probeLog[i].provider = probeLog[j].provider
        /\ probeLog[i].path = probeLog[j].path
        /\ probeLog[i].javaHome = probeLog[j].javaHome
        /\ \E a, b \in MatchingRules(probeLog[i].provider, probeLog[i].path, probeLog[i].javaHome) :
              SourceRules(probeLog[i].provider)[a].source # SourceRules(probeLog[i].provider)[b].source
        /\ probeLog[i].source = SourceVersionManager
        /\ probeLog[j].source = SourceVersionManager

\* ------------------------------------- DetectInstalled on varied version output

\* What the version command of each executable is taken to print: the usual
\* output, nothing at all, and two texts that are not a version report.
VersionOutputs(p) ==
    {UsualOutput(p), << >>, <<"\n">>} \cup
    (CASE p = "Golang"  -> {<<"go", " ", "version", "\n">>}
       [] p = "Node.js" -> {<<"node:", " ", "bad", " ", "option", "\n">>}
       [] p = "Python"  -> {<<"3.11.0", "\n">>}
       [] p = "Java"    -> {<<"openjdk", " ", "version", " ", "\"", "17.0.9", "\n">>}
       [] p = "PHP"     -> {<<"Zend", " ", "Engine", " ", "v4.2.0", "\n">>}
       [] p = "Rust"    -> {<<"cargo", " ", "1.74.0", "\n">>})

\* provider.DetectInstalled() on a machine where the executable is absent,
\* broken, or prints one of VersionOutputs.
DetectOn ==
    /\ Len(probeLog) < MaxProbes
    /\ \E p \in Providers : \E exe \in {"absent", "broken", "ok"} :
       \E output \in (IF exe = "ok" THEN VersionOutputs(p) ELSE {<< >>}) :
          probeLog' = Append(probeLog,
              [op |-> "DetectInstalledOn", provider |-> p, exe |-> exe, output |-> output,
               out |-> DetectInstalledOn(p, exe, PathString(BinaryPath(p)), << >>, output)])
    /\ UNCHANGED <<fs, execOnPath, goEnv, scanVars, cleanVars, orchVars>>

SpecDetect == InitClassify /\ [][DetectOn]_vars

\* The format each ecosystem's version output is expected to have, after
\* trimming: "go version go<v> ..." (three fields at least), "v<v>" for Node,
\* "Python <v>", a first line with a quoted <v> for Java, a first line
\* "PHP <v> ..." and "rustc <v> ...".
MatchesFormat(p, version) ==
    CASE p = "Golang"  -> Len(Words(version)) >= 3
      [] p = "Node.js" -> Len(Words(version)) = 1 /\ HasPrefix(version, <<"v">>)
      [] p = "Python"  -> HasPrefix(version, <<"Python", " ">>)
      [] p = "Java"    ->
            LET l == FirstLine(version)
            IN  Cardinality({i \in DOMAIN l : l[i] = "\""}) >= 2
      [] p = "PHP"     ->
            HasPrefix(FirstLine(version), <<"PHP", " ">>) /\ Len(Words(FirstLine(version))) >= 2
      [] p = "Rust"    -> Len(Words(version)) >= 2 /\ Words(version)[1] = <<"rustc">>

\* C25 (as claimed): when the executable is found and its version command
\* succeeds with output that does not have the ecosystem's expected format,
\* DetectInstalled succeeds and the Installation's version is "unknown".
C25_UnparsedVersionIsUnknown ==
    \A k \in ProbesOf("DetectInstalledOn") :
        LET e == probeLog[k]
        IN  (e.exe = "ok" /\ ~MatchesFormat(e.provider, GetExecutableVersion(e.output))) =>
                /\ e.out.err = << >>
                /\ Len(e.out.installations) = 1
                /\ e.out.installations[1].Version = <<"unknown">>


====
